---------------------------- MODULE Spec2Model ----------------------------
(***************************************************************************)
(* The voxel world of Guildhall's SimpleMiner game: World (chunk           *)
(* activation and deactivation around the camera, the dirty lighting       *)
(* queue, digging and placing), Chunk (block array, procedural generation, *)
(* the run-length encoded chunk file) and BlockLocator (neighbour          *)
(* navigation across chunk faces).                                         *)
(*                                                                         *)
(* Chunk.hpp, Chunk.inl, Block.hpp, BlockType.hpp and BlockLocator.inl are *)
(* not among the sources.  What they declare (the chunk geometry, the      *)
(* block record and its accessors, the block type registry, the block      *)
(* setter of Chunk) is modelled from the specification's data model and    *)
(* from the way World.cpp, Chunk.cpp and BlockLocator.cpp use it.          *)
(*                                                                         *)
(* Positions are integers.  Chunk pointers are addresses of a small heap;  *)
(* new takes any free address, delete frees it, so a pointer kept after    *)
(* delete either dangles or aliases a chunk allocated later.               *)
(***************************************************************************)
EXTENDS Integers, Sequences, FiniteSets, TLC

VARIABLES
    pc,              \* position inside one frame: ProcessInput, then the steps of World::Update
    config,          \* the game config blackboard: activation_range, deactivation_offset
    camera,          \* Game::GetGameCamera()->GetPosition().xy()
    heap,            \* address -> Chunk object (or freed memory)
    m_activeChunks,  \* World::m_activeChunks, chunk coords -> Chunk*
    m_dirtyLightingBlocks, \* World::m_dirtyLightingBlocks, a deque of BlockLocator
    MISSING_BLOCK,   \* Block::MISSING_BLOCK, the shared sentinel GetBlock() returns by reference
    disk,            \* Saves/Chunk_x,y.chunk, chunk coords -> file bytes
    edits,           \* digs and placements done so far
    last             \* what the last step did (observation only)

vars == <<pc, config, camera, heap, m_activeChunks, m_dirtyLightingBlocks,
          MISSING_BLOCK, disk, edits, last>>

-----------------------------------------------------------------------------
(* Bounds of the model *)

\* chunk objects that can be alive (or dangling) at once: the heap's addresses
NumAddrs == 3

\* digs and placements in one run
MaxEdits == 1

-----------------------------------------------------------------------------
(* Chunk geometry (Chunk.hpp).  Each axis is a power of two; the world is   *)
(* checked at 2 x 2 x 4 blocks per chunk.                                   *)

CHUNK_BITS_X == 1
CHUNK_BITS_Y == 1
CHUNK_BITS_Z == 2

Pow2(n) == 2 ^ n

\* a geometry is the three bit widths; the serializer is also checked at a
\* geometry whose chunk holds runs longer than one length byte
ChunkGeometry == [bx |-> CHUNK_BITS_X, by |-> CHUNK_BITS_Y, bz |-> CHUNK_BITS_Z]

CHUNK_DIMENSIONS_X == Pow2(CHUNK_BITS_X)
CHUNK_DIMENSIONS_Y == Pow2(CHUNK_BITS_Y)
CHUNK_DIMENSIONS_Z == Pow2(CHUNK_BITS_Z)
BLOCKS_PER_Z_LAYER == CHUNK_DIMENSIONS_X * CHUNK_DIMENSIONS_Y
BLOCKS_PER_CHUNK == BLOCKS_PER_Z_LAYER * CHUNK_DIMENSIONS_Z

BlocksOfGeometry(g) == Pow2(g.bx) * Pow2(g.by) * Pow2(g.bz)

\* index & CHUNK_X_MASK, index & CHUNK_Y_MASK, index & CHUNK_Z_MASK, as the
\* coordinate the masked bits hold.  \div and % floor, so index -1 has every
\* bit set, as in two's complement.
XBits(index) == index % CHUNK_DIMENSIONS_X
YBits(index) == (index \div CHUNK_DIMENSIONS_X) % CHUNK_DIMENSIONS_Y
ZBits(index) == (index \div BLOCKS_PER_Z_LAYER) % CHUNK_DIMENSIONS_Z

GetBlockIndexFromBlockCoords(x, y, z) ==
    x + y * CHUNK_DIMENSIONS_X + z * BLOCKS_PER_Z_LAYER

BlockIndices == 0 .. (BLOCKS_PER_CHUNK - 1)

-----------------------------------------------------------------------------
(* Block types (BlockType registry) and the Block record (Block.hpp) *)

AIR_TYPE_INDEX == 0
GRASS_TYPE_INDEX == 1
DIRT_TYPE_INDEX == 2
STONE_TYPE_INDEX == 3
WATER_TYPE_INDEX == 4
GLOWSTONE_TYPE_INDEX == 5

BLOCK_MAX_LIGHTING == 15
GLOWSTONE_LIGHT == 10

BlockTypeIndices == {AIR_TYPE_INDEX, GRASS_TYPE_INDEX, DIRT_TYPE_INDEX,
                     STONE_TYPE_INDEX, WATER_TYPE_INDEX, GLOWSTONE_TYPE_INDEX}

TypeIsFullyOpaque(t) == t \in {GRASS_TYPE_INDEX, DIRT_TYPE_INDEX, STONE_TYPE_INDEX}
TypeIsSolid(t) == t \in {GRASS_TYPE_INDEX, DIRT_TYPE_INDEX, STONE_TYPE_INDEX,
                         GLOWSTONE_TYPE_INDEX}
TypeInternalLightLevel(t) == IF t = GLOWSTONE_TYPE_INDEX THEN GLOWSTONE_LIGHT ELSE 0

\* a default-constructed Block: air, unlit, no flags
NewBlock == [type |-> AIR_TYPE_INDEX, indoor |-> 0, outdoor |-> 0,
             sky |-> FALSE, dirty |-> FALSE]

IsFullyOpaque(block) == TypeIsFullyOpaque(block.type)
IsSolid(block) == TypeIsSolid(block.type)

-----------------------------------------------------------------------------
(* Chunk objects and pointers *)

NULL == 0

\* the addresses operator new can return: the heap of the run
Addrs == DOMAIN heap

\* freed memory: what it holds is not defined, every use of it is
FreedChunk == [live |-> FALSE]

\* Chunk::Chunk(chunkCoords): default blocks, no neighbours, no mesh
NewChunk(chunkCoords) ==
    [live |-> TRUE, coords |-> chunkCoords,
     blocks |-> [i \in BlockIndices |-> NewBlock],
     east |-> NULL, west |-> NULL, north |-> NULL, south |-> NULL,
     meshDirty |-> TRUE, needsSave |-> FALSE]

IsLive(h, chunk) == chunk \in Addrs /\ h[chunk].live

\* a world value threaded through the steps of one handler:
\* the heap, the dirty lighting deque and the missing-block sentinel
World(h, q, mb) == [heap |-> h, queue |-> q, missing |-> mb]

\* the statements of a handler run in sequence: v is computed once, then
\* the rest of the handler, F, runs on its value
Then(v, F(_)) == CHOOSE r \in {F(x) : x \in {v}} : TRUE

-----------------------------------------------------------------------------
(* BlockLocator *)

BlockLocator(chunk, blockIndex) == [chunk |-> chunk, index |-> blockIndex]

\* BlockLocator(chunk, blockCoords), the constructor from block coords
BlockLocatorAt(chunk, x, y, z) == BlockLocator(chunk, GetBlockIndexFromBlockCoords(x, y, z))

IsValid(loc) == loc.chunk # NULL

\* m_chunk->GetEastNeighbor() and so on.  Through a null m_chunk the call is
\* undefined; the handlers that can make it branch on StepDerefsNull first,
\* and the value given here is the one a build that survives the read sees.
GetEastNeighbor(h, chunk) == IF chunk = NULL THEN NULL ELSE h[chunk].east
GetWestNeighbor(h, chunk) == IF chunk = NULL THEN NULL ELSE h[chunk].west
GetNorthNeighbor(h, chunk) == IF chunk = NULL THEN NULL ELSE h[chunk].north
GetSouthNeighbor(h, chunk) == IF chunk = NULL THEN NULL ELSE h[chunk].south

ToEast(h, loc) ==
    IF XBits(loc.index) = CHUNK_DIMENSIONS_X - 1
    THEN BlockLocator(GetEastNeighbor(h, loc.chunk), loc.index - XBits(loc.index))
    ELSE BlockLocator(loc.chunk, loc.index + 1)

ToWest(h, loc) ==
    IF XBits(loc.index) = 0
    THEN BlockLocator(GetWestNeighbor(h, loc.chunk), loc.index + (CHUNK_DIMENSIONS_X - 1))
    ELSE BlockLocator(loc.chunk, loc.index - 1)

ToNorth(h, loc) ==
    IF YBits(loc.index) = CHUNK_DIMENSIONS_Y - 1
    THEN BlockLocator(GetNorthNeighbor(h, loc.chunk),
                      loc.index - YBits(loc.index) * CHUNK_DIMENSIONS_X)
    ELSE BlockLocator(loc.chunk, loc.index + CHUNK_DIMENSIONS_X)

\* the step south that keeps the block index when it changes the chunk
ToSouthSameIndex(h, loc) ==
    IF YBits(loc.index) = 0
    THEN BlockLocator(GetSouthNeighbor(h, loc.chunk), loc.index)
    ELSE BlockLocator(loc.chunk, loc.index - CHUNK_DIMENSIONS_X)

ToSouth(h, loc) ==
    IF YBits(loc.index) = 0
    THEN BlockLocator(GetSouthNeighbor(h, loc.chunk),
                      loc.index + (CHUNK_DIMENSIONS_Y - 1) * CHUNK_DIMENSIONS_X)
    ELSE BlockLocator(loc.chunk, loc.index - CHUNK_DIMENSIONS_X)

\* the step up without the test for the top layer
ToAboveUnchecked(loc) == BlockLocator(loc.chunk, loc.index + BLOCKS_PER_Z_LAYER)

ToAbove(loc) ==
    IF ZBits(loc.index) = CHUNK_DIMENSIONS_Z - 1
    THEN BlockLocator(NULL, -1)
    ELSE BlockLocator(loc.chunk, loc.index + BLOCKS_PER_Z_LAYER)

ToBelow(loc) ==
    IF ZBits(loc.index) = 0
    THEN BlockLocator(NULL, -1)
    ELSE BlockLocator(loc.chunk, loc.index - BLOCKS_PER_Z_LAYER)

\* one of the four horizontal steps from loc calls a neighbour getter on a
\* null m_chunk
StepDerefsNull(loc) ==
    /\ loc.chunk = NULL
    /\ \/ XBits(loc.index) = CHUNK_DIMENSIONS_X - 1
       \/ XBits(loc.index) = 0
       \/ YBits(loc.index) = CHUNK_DIMENSIONS_Y - 1
       \/ YBits(loc.index) = 0

\* BlockLocator::GetBlock(): the sentinel for a null chunk, else the chunk's block
GetBlock(w, loc) ==
    IF loc.chunk = NULL THEN w.missing ELSE w.heap[loc.chunk].blocks[loc.index]

\* a write through the reference GetBlock() returned
SetBlock(w, loc, block) ==
    IF loc.chunk = NULL
    THEN [w EXCEPT !.missing = block]
    ELSE [w EXCEPT !.heap[loc.chunk].blocks[loc.index] = block]

-----------------------------------------------------------------------------
(* The dirty lighting deque *)

AddBlockToDirtyLightingList(w, blockLocator) ==
    LET block == GetBlock(w, blockLocator) IN
    IF ~block.dirty
    THEN LET w1 == SetBlock(w, blockLocator, [block EXCEPT !.dirty = TRUE]) IN
         [w1 EXCEPT !.queue = Append(w1.queue, blockLocator)]
    ELSE w

\* pop_front, then clear the flag of the block the popped locator names
RemoveFrontBlockFromDirtyLightingList(w) ==
    LET blockLocator == Head(w.queue)
        w1 == [w EXCEPT !.queue = Tail(w.queue)] IN
    SetBlock(w1, blockLocator, [GetBlock(w1, blockLocator) EXCEPT !.dirty = FALSE])

\* AddBlockToDirtyLightingList for each locator of a sequence, in order
RECURSIVE AddAllToDirtyLightingList(_, _)
AddAllToDirtyLightingList(w, locs) ==
    IF locs = <<>> THEN w
    ELSE Then(AddBlockToDirtyLightingList(w, Head(locs)),
              LAMBDA w1 : AddAllToDirtyLightingList(w1, Tail(locs)))

-----------------------------------------------------------------------------
(* World::RecalculateLightingForBlock *)

Max2(a, b) == IF a >= b THEN a ELSE b
ClampInt(v, lo, hi) == IF v < lo THEN lo ELSE IF v > hi THEN hi ELSE v

SixNeighbors(h, loc) ==
    <<ToEast(h, loc), ToWest(h, loc), ToNorth(h, loc), ToSouth(h, loc),
      ToAbove(loc), ToBelow(loc)>>

MaxNeighborIndoorLight(w, loc) ==
    LET n == SixNeighbors(w.heap, loc) IN
    Max2(Max2(Max2(GetBlock(w, n[1]).indoor, GetBlock(w, n[2]).indoor),
              Max2(GetBlock(w, n[3]).indoor, GetBlock(w, n[4]).indoor)),
         Max2(GetBlock(w, n[5]).indoor, GetBlock(w, n[6]).indoor))

MaxNeighborOutdoorLight(w, loc) ==
    LET n == SixNeighbors(w.heap, loc) IN
    Max2(Max2(Max2(GetBlock(w, n[1]).outdoor, GetBlock(w, n[2]).outdoor),
              Max2(GetBlock(w, n[3]).outdoor, GetBlock(w, n[4]).outdoor)),
         Max2(GetBlock(w, n[5]).outdoor, GetBlock(w, n[6]).outdoor))

\* the same without the loss of one level per block
ExpectedIndoorLightNoFalloff(w, loc) ==
    LET currBlock == GetBlock(w, loc)
        currInternalLight == TypeInternalLightLevel(currBlock.type) IN
    IF ~IsFullyOpaque(currBlock)
    THEN Max2(MaxNeighborIndoorLight(w, loc), currInternalLight)
    ELSE currInternalLight

ExpectedIndoorLight(w, loc) ==
    LET currBlock == GetBlock(w, loc)
        currInternalLight == TypeInternalLightLevel(currBlock.type) IN
    IF ~IsFullyOpaque(currBlock)
    THEN Max2(MaxNeighborIndoorLight(w, loc) - 1, currInternalLight)
    ELSE currInternalLight

ExpectedOutdoorLight(w, loc) ==
    LET currBlock == GetBlock(w, loc) IN
    IF currBlock.sky THEN BLOCK_MAX_LIGHTING
    ELSE IF ~IsFullyOpaque(currBlock)
         THEN ClampInt(MaxNeighborOutdoorLight(w, loc) - 1, 0, BLOCK_MAX_LIGHTING)
         ELSE 0

CurrLightValuesWrong(w, loc) ==
    \/ ExpectedIndoorLight(w, loc) # GetBlock(w, loc).indoor
    \/ ExpectedOutdoorLight(w, loc) # GetBlock(w, loc).outdoor

RecalculateLightingForBlock(w, blockLocator) ==
    IF CurrLightValuesWrong(w, blockLocator)
    THEN LET fixed == [GetBlock(w, blockLocator) EXCEPT
                          !.indoor = ExpectedIndoorLight(w, blockLocator),
                          !.outdoor = ExpectedOutdoorLight(w, blockLocator)]
         IN AddAllToDirtyLightingList(SetBlock(w, blockLocator, fixed),
                                      SixNeighbors(w.heap, blockLocator))
    ELSE w

-----------------------------------------------------------------------------
(* The chunk file: ChunkFileHeader_t, Chunk::WriteToFile,                   *)
(* VerifyChunkDataFromFile, Chunk::InitializeFromFile.                      *)
(* A file is the sequence of its bytes; byte k of the file is data[k + 1].  *)

CHUNK_VERSION == 1
RLE_LIMIT == 255            \* 0xFF
BYTE_RANGE == 256           \* a uint8_t counts modulo 256
SIZEOF_HEADER == 12         \* sizeof(ChunkFileHeader_t): twelve uint8_t members

Char_S == 83
Char_M == 77
Char_C == 67
Char_D == 68
Char_R == 82

\* a default-initialized ChunkFileHeader_t, byte for byte
ChunkFileHeader(g) ==
    <<Char_S, Char_M, Char_C, Char_D, CHUNK_VERSION, g.bx, g.by, g.bz, 0, 0, 0, Char_R>>

\* buffer.push_back(rollingType); buffer.push_back(rollingCount)
PushRun(buffer, rollingType, rollingCount) == buffer \o <<rollingType, rollingCount>>

\* the limit test against 0x100, a value the uint8_t count never takes
RollingCountPastLimit(rollingCount) == rollingCount = RLE_LIMIT + 1

\* the test "if we hit RLE limit" on the uint8_t rolling count
RollingCountAtLimit(rollingCount) == rollingCount = RLE_LIMIT

\* the writer without its last push: the open run is lost
DropLastRun(buffer, rollingType, rollingCount) == buffer

\* "push the last bit": the run still open when the loop ends
PushLastRun(buffer, rollingType, rollingCount) == PushRun(buffer, rollingType, rollingCount)

\* the writer's locals between two rounds of its loop
WriterState(buffer, rollingType, rollingCount) ==
    [buffer |-> buffer, rollingType |-> rollingType, rollingCount |-> rollingCount]

\* the round without the limit test: the uint8_t count runs on past 0xFF
WriteBlockNoSplit(st, currType) ==
    IF currType # st.rollingType
    THEN WriterState(PushRun(st.buffer, st.rollingType, st.rollingCount), currType, 1)
    ELSE WriterState(st.buffer, st.rollingType, (st.rollingCount + 1) % BYTE_RANGE)

\* one round of the loop over the blocks: currType is
\* m_blocks[blockIndex].GetTypeIndex()
WriteBlock(st, currType) ==
    IF currType # st.rollingType
    THEN WriterState(PushRun(st.buffer, st.rollingType, st.rollingCount), currType, 1)
    ELSE IF RollingCountAtLimit(st.rollingCount)
         THEN WriterState(PushRun(st.buffer, st.rollingType, st.rollingCount),
                          st.rollingType, (0 + 1) % BYTE_RANGE)
         ELSE WriterState(st.buffer, st.rollingType, (st.rollingCount + 1) % BYTE_RANGE)

\* the rounds for blockIndex = first, ..., end - 1, in that order (the range
\* is halved so that the evaluation stays shallow)
RECURSIVE WriteRuns(_, _, _, _)
WriteRuns(types, first, end, st) ==
    IF first >= end THEN st
    ELSE IF end = first + 1 THEN WriteBlock(st, types[first])
    ELSE LET middle == (first + end) \div 2 IN
         Then(WriteRuns(types, first, middle, st), LAMBDA half :
              WriteRuns(types, middle, end, half))

\* the bytes Chunk::WriteToFile writes for a block array of geometry g
WriteToFile(types, g) ==
    LET st == WriteRuns(types, 0, BlocksOfGeometry(g),
                        WriterState(ChunkFileHeader(g), types[0], 0))
    IN PushLastRun(st.buffer, st.rollingType, st.rollingCount)

\* what file.GetData() points at: the file's bytes, followed by whatever the
\* memory past the buffer holds (reading past the file's size is undefined)
MemoryImage(file, beyond) == file \o [i \in 1 .. SIZEOF_HEADER |-> beyond]

\* data[offset], offsets counted from 0 as in the code
ByteAt(data, offset) == data[offset + 1]

\* the run-count loop: byteIndex from sizeof(header) while byteIndex < fileSize,
\* two bytes at a time, each round reading data[byteIndex + 1]
RECURSIVE TotalBlocksInFile(_, _, _, _)
TotalBlocksInFile(data, fileSize, byteIndex, totalBlocks) ==
    IF byteIndex >= fileSize THEN totalBlocks
    ELSE TotalBlocksInFile(data, fileSize, byteIndex + 2,
                           totalBlocks + ByteAt(data, byteIndex + 1))

\* the header checks, on the 12 bytes memcpy took from data
HeaderIsGood(data, g) ==
    /\ <<ByteAt(data, 0), ByteAt(data, 1), ByteAt(data, 2), ByteAt(data, 3)>>
           = <<Char_S, Char_M, Char_C, Char_D>>
    /\ ByteAt(data, 4) = CHUNK_VERSION
    /\ ByteAt(data, 5) = g.bx
    /\ ByteAt(data, 6) = g.by
    /\ ByteAt(data, 7) = g.bz
    /\ ByteAt(data, 11) = Char_R

VerifyChunkDataFromFile(data, fileSize, g) ==
    IF HeaderIsGood(data, g)
    THEN TotalBlocksInFile(data, fileSize, SIZEOF_HEADER, 0) = BlocksOfGeometry(g)
    ELSE FALSE

\* Chunk::SetBlockTypeAtBlockIndex: the block's type index is replaced, the
\* rest of the block is kept
SetBlockTypeAtBlockIndex(blocks, blockIndex, typeIndex) ==
    [blocks EXCEPT ![blockIndex].type = typeIndex]

\* one run: SetBlockTypeAtBlockIndex for blockIndex, ..., runEnd - 1, in that
\* order (the range is halved so that the evaluation stays shallow)
RECURSIVE LoadRun(_, _, _, _)
LoadRun(blocks, blockIndex, runEnd, runType) ==
    IF blockIndex >= runEnd THEN blocks
    ELSE IF runEnd = blockIndex + 1
         THEN SetBlockTypeAtBlockIndex(blocks, blockIndex, runType)
    ELSE LET middle == (blockIndex + runEnd) \div 2 IN
         Then(LoadRun(blocks, blockIndex, middle, runType), LAMBDA half :
              LoadRun(half, middle, runEnd, runType))

RECURSIVE LoadRuns(_, _, _, _, _)
LoadRuns(blocks, data, fileSize, byteIndex, blocksLoadedSoFar) ==
    IF byteIndex >= fileSize THEN blocks
    ELSE LET runType == ByteAt(data, byteIndex)
             runCount == ByteAt(data, byteIndex + 1) IN
         Then(LoadRun(blocks, blocksLoadedSoFar, blocksLoadedSoFar + runCount, runType),
              LAMBDA loaded :
                  LoadRuns(loaded, data, fileSize, byteIndex + 2,
                           blocksLoadedSoFar + runCount))

\* no file of that name: not a sequence of bytes, and unlike the empty file
NoFile == <<-1>>

\* Chunk::InitializeFromFile on the blocks of a chunk: whether it succeeded,
\* and the blocks afterwards.  file is NoFile when Open fails; beyond is the
\* byte a read past the end of the file's buffer comes back with.
InitializeFromFile(blocks, file, beyond, g) ==
    IF file = NoFile THEN [ok |-> FALSE, blocks |-> blocks]
    ELSE LET data == MemoryImage(file, beyond)
             fileSize == Len(file) IN
         IF ~VerifyChunkDataFromFile(data, fileSize, g)
         THEN [ok |-> FALSE, blocks |-> blocks]
         ELSE [ok |-> TRUE, blocks |-> LoadRuns(blocks, data, fileSize, SIZEOF_HEADER, 0)]

\* what a read past the end of the file's buffer can come back with
BeyondBytes == {0, 4, 16}

\* the byteIndex values of the loops over the body
RunStarts(fileSize) ==
    {byteIndex \in SIZEOF_HEADER .. (fileSize - 1) : (byteIndex - SIZEOF_HEADER) % 2 = 0}

\* the offsets of data VerifyChunkDataFromFile reads: the header memcpy takes,
\* then the length byte of every round of the run-count loop
VerifyOffsetsRead(data, fileSize, g) ==
    (0 .. (SIZEOF_HEADER - 1)) \cup
    (IF HeaderIsGood(data, g) THEN {byteIndex + 1 : byteIndex \in RunStarts(fileSize)}
     ELSE {})

\* the offsets the load loop of InitializeFromFile reads
LoadOffsetsRead(fileSize) ==
    UNION {{byteIndex, byteIndex + 1} : byteIndex \in RunStarts(fileSize)}

\* all offsets InitializeFromFile reads of an opened file
OffsetsRead(file, beyond, g) ==
    LET data == MemoryImage(file, beyond) IN
    VerifyOffsetsRead(data, Len(file), g) \cup
    (IF VerifyChunkDataFromFile(data, Len(file), g) THEN LoadOffsetsRead(Len(file)) ELSE {})

\* the block indices the load loop writes
BlockIndicesWritten(file, beyond, g) ==
    LET data == MemoryImage(file, beyond) IN
    IF VerifyChunkDataFromFile(data, Len(file), g)
    THEN 0 .. (TotalBlocksInFile(data, Len(file), SIZEOF_HEADER, 0) - 1)
    ELSE {}

ReadsPastFile(file, beyond, g) == \E offset \in OffsetsRead(file, beyond, g) : offset >= Len(file)

TypesOf(blocks) == [i \in DOMAIN blocks |-> blocks[i].type]

-----------------------------------------------------------------------------
(* Chunk::GenerateWithPerlinNoise *)

\* World's generation parameters, scaled to the modelled chunk height
SEA_LEVEL == 2
BASE_ELEVATION == 2
NOISE_MAX_DEVIATION_FROM_BASE_ELEVATION == 1

\* RoundToNearestInt(Compute2dPerlinNoise(x, y, 50) * maxDeviation): the noise
\* is a fixed function of the world position with values in [-1, 1]
RoundedNoise(worldX, worldY, maxDeviation) ==
    (((worldX + 2 * worldY) % 3) - 1) * maxDeviation

MaxInt(a, b) == IF a >= b THEN a ELSE b

TypeToUse(zIndex, elevationFromNoise, seaLevel) ==
    IF zIndex > MaxInt(elevationFromNoise, seaLevel) - 1 THEN AIR_TYPE_INDEX
    ELSE IF elevationFromNoise >= seaLevel
         THEN IF zIndex = elevationFromNoise - 1 THEN GRASS_TYPE_INDEX
              ELSE IF zIndex > elevationFromNoise - 4 THEN DIRT_TYPE_INDEX
              ELSE STONE_TYPE_INDEX
         ELSE IF zIndex >= elevationFromNoise THEN WATER_TYPE_INDEX
              ELSE IF zIndex > seaLevel - 4 THEN DIRT_TYPE_INDEX
              ELSE STONE_TYPE_INDEX

GenerateWithPerlinNoise(blocks, chunkCoords, baseElevation, maxDeviation, seaLevel) ==
    [i \in BlockIndices |->
        LET worldX == chunkCoords[1] * CHUNK_DIMENSIONS_X + XBits(i)
            worldY == chunkCoords[2] * CHUNK_DIMENSIONS_Y + YBits(i)
            elevationFromNoise == RoundedNoise(worldX, worldY, maxDeviation) + baseElevation
        IN [blocks[i] EXCEPT !.type = TypeToUse(ZBits(i), elevationFromNoise, seaLevel)]]

FileOf(d, chunkCoords) == IF chunkCoords \in DOMAIN d THEN d[chunkCoords] ELSE NoFile

\* InitializeFromFile reads the file of chunkCoords past its end
FileReadPastEnd(d, chunkCoords, beyond) ==
    IF FileOf(d, chunkCoords) = NoFile THEN FALSE
    ELSE ReadsPastFile(FileOf(d, chunkCoords), beyond, ChunkGeometry)

\* the blocks as InitializeFromFile left them, whether or not it succeeded
PopulateBlocksOnChunkNoFallback(blocks, chunkCoords, d, beyond) ==
    InitializeFromFile(blocks, FileOf(d, chunkCoords), beyond, ChunkGeometry).blocks

\* World::PopulateBlocksOnChunk: the file if it loads, else the noise
PopulateBlocksOnChunk(blocks, chunkCoords, d, beyond) ==
    LET fromFile == InitializeFromFile(blocks, FileOf(d, chunkCoords), beyond, ChunkGeometry) IN
    IF fromFile.ok THEN fromFile.blocks
    ELSE GenerateWithPerlinNoise(blocks, chunkCoords, BASE_ELEVATION,
                                 NOISE_MAX_DEVIATION_FROM_BASE_ELEVATION, SEA_LEVEL)

-----------------------------------------------------------------------------
(* World::InitializeLightingForChunk and its three passes *)

\* pass 1, one column from zIndex down: not opaque is sky at full outdoor
\* light, the first opaque block ends the column
RECURSIVE SkyColumn(_, _, _, _)
SkyColumn(blocks, xIndex, yIndex, zIndex) ==
    IF zIndex < 0 THEN blocks
    ELSE LET i == GetBlockIndexFromBlockCoords(xIndex, yIndex, zIndex) IN
         IF ~IsFullyOpaque(blocks[i])
         THEN Then([blocks EXCEPT ![i].sky = TRUE, ![i].outdoor = BLOCK_MAX_LIGHTING],
                   LAMBDA lit : SkyColumn(lit, xIndex, yIndex, zIndex - 1))
         ELSE blocks

\* pass 1, the columns in the order yIndex, then xIndex (column = y * DX + x)
RECURSIVE SkyColumns(_, _)
SkyColumns(blocks, column) ==
    IF column >= BLOCKS_PER_Z_LAYER THEN blocks
    ELSE Then(SkyColumn(blocks, XBits(column), YBits(column), CHUNK_DIMENSIONS_Z - 1),
              LAMBDA lit : SkyColumns(lit, column + 1))

\* pass 2, one sky block: its east, west, north, south neighbours that are
\* valid, not opaque and not sky become dirty
DirtyHorizontalNeighbor(w, loc) ==
    IF IsValid(loc) /\ ~IsFullyOpaque(GetBlock(w, loc)) /\ ~GetBlock(w, loc).sky
    THEN AddBlockToDirtyLightingList(w, loc)
    ELSE w

RECURSIVE SkyNeighborsDirty(_, _, _)
SkyNeighborsDirty(w, chunk, blockIndex) ==
    IF blockIndex >= BLOCKS_PER_CHUNK THEN w
    ELSE LET loc == BlockLocator(chunk, blockIndex) IN
         IF ~GetBlock(w, loc).sky
         THEN SkyNeighborsDirty(w, chunk, blockIndex + 1)
         ELSE LET w1 == DirtyHorizontalNeighbor(w, ToEast(w.heap, loc))
                  w2 == DirtyHorizontalNeighbor(w1, ToWest(w.heap, loc))
                  w3 == DirtyHorizontalNeighbor(w2, ToNorth(w.heap, loc))
                  w4 == DirtyHorizontalNeighbor(w3, ToSouth(w.heap, loc))
              IN Then(w4, LAMBDA w5 : SkyNeighborsDirty(w5, chunk, blockIndex + 1))

\* the sky pass without the break at the first opaque block of a column
InitializeSkyBlocksForChunkNoBreak(w, chunk) ==
    LET lit == [w EXCEPT !.heap[chunk].blocks =
                   [i \in BlockIndices |->
                       IF ~IsFullyOpaque(w.heap[chunk].blocks[i])
                       THEN [w.heap[chunk].blocks[i] EXCEPT !.sky = TRUE,
                                                            !.outdoor = BLOCK_MAX_LIGHTING]
                       ELSE w.heap[chunk].blocks[i]]]
    IN SkyNeighborsDirty(lit, chunk, 0)

InitializeSkyBlocksForChunk(w, chunk) ==
    LET lit == [w EXCEPT !.heap[chunk].blocks = SkyColumns(w.heap[chunk].blocks, 0)]
    IN SkyNeighborsDirty(lit, chunk, 0)

\* the test with the opacity check the wrong way round
LightSourceIsSeededWhenOpaque(block) ==
    IsFullyOpaque(block) /\ TypeInternalLightLevel(block.type) > 0

\* the test of InitializeLightSourceBlocksForChunk on one block
LightSourceIsSeeded(block) ==
    ~IsFullyOpaque(block) /\ TypeInternalLightLevel(block.type) > 0

RECURSIVE InitializeLightSourceBlocks(_, _, _)
InitializeLightSourceBlocks(w, chunk, blockIndex) ==
    IF blockIndex >= BLOCKS_PER_CHUNK THEN w
    ELSE LET loc == BlockLocator(chunk, blockIndex) IN
         Then(IF LightSourceIsSeeded(GetBlock(w, loc))
              THEN AddBlockToDirtyLightingList(w, loc) ELSE w,
              LAMBDA w1 : InitializeLightSourceBlocks(w1, chunk, blockIndex + 1))

InitializeLightSourceBlocksForChunk(w, chunk) == InitializeLightSourceBlocks(w, chunk, 0)

\* the block coords SetNeighborEdgeBlocksToDirtyForChunk visits on each
\* neighbour, the a-th of the inner loop in layer zIndex
EastEdgeCoords(a, zIndex) == <<0, a, zIndex>>
WestEdgeCoords(a, zIndex) == <<CHUNK_DIMENSIONS_X - 1, a, zIndex>>
NorthEdgeCoords(a, zIndex) == <<a, 0, zIndex>>
SouthEdgeCoords(a, zIndex) == <<a, 0, zIndex>>

EdgeCoords(side, a, zIndex) ==
    CASE side = "east" -> EastEdgeCoords(a, zIndex)
      [] side = "west" -> WestEdgeCoords(a, zIndex)
      [] side = "north" -> NorthEdgeCoords(a, zIndex)
      [] side = "south" -> SouthEdgeCoords(a, zIndex)

EdgeWidth(side) ==
    IF side \in {"east", "west"} THEN CHUNK_DIMENSIONS_Y ELSE CHUNK_DIMENSIONS_X

\* the two nested loops over one face of a neighbour: zIndex outer, a inner
RECURSIVE EdgeBlocksDirty(_, _, _, _)
EdgeBlocksDirty(w, neighbor, side, k) ==
    IF k >= EdgeWidth(side) * CHUNK_DIMENSIONS_Z THEN w
    ELSE LET c == EdgeCoords(side, k % EdgeWidth(side), k \div EdgeWidth(side))
             loc == BlockLocatorAt(neighbor, c[1], c[2], c[3]) IN
         Then(IF ~IsFullyOpaque(GetBlock(w, loc))
              THEN AddBlockToDirtyLightingList(w, loc) ELSE w,
              LAMBDA w1 : EdgeBlocksDirty(w1, neighbor, side, k + 1))

NeighborEdgeDirty(w, neighbor, side) ==
    IF neighbor # NULL THEN EdgeBlocksDirty(w, neighbor, side, 0) ELSE w

SetNeighborEdgeBlocksToDirtyForChunk(w, chunk) ==
    LET w1 == NeighborEdgeDirty(w, w.heap[chunk].east, "east")
        w2 == NeighborEdgeDirty(w1, w.heap[chunk].west, "west")
        w3 == NeighborEdgeDirty(w2, w.heap[chunk].north, "north")
    IN NeighborEdgeDirty(w3, w.heap[chunk].south, "south")

\* InitializeLightingForChunk run on the chunk as it is before it is linked
\* to its neighbours
InitializeLightingForChunkBeforeLinks(w, chunk) ==
    Then(World([w.heap EXCEPT ![chunk].east = NULL, ![chunk].west = NULL,
                              ![chunk].north = NULL, ![chunk].south = NULL],
               w.queue, w.missing), LAMBDA unlinked :
    Then(InitializeSkyBlocksForChunk(unlinked, chunk), LAMBDA w1 :
    Then(InitializeLightSourceBlocksForChunk(w1, chunk), LAMBDA w2 :
    Then(SetNeighborEdgeBlocksToDirtyForChunk(w2, chunk), LAMBDA w3 :
         World([w3.heap EXCEPT ![chunk].east = w.heap[chunk].east,
                               ![chunk].west = w.heap[chunk].west,
                               ![chunk].north = w.heap[chunk].north,
                               ![chunk].south = w.heap[chunk].south],
               w3.queue, w3.missing)))))

InitializeLightingForChunk(w, chunk) ==
    Then(InitializeSkyBlocksForChunk(w, chunk), LAMBDA w1 :
    Then(InitializeLightSourceBlocksForChunk(w1, chunk), LAMBDA w2 :
         SetNeighborEdgeBlocksToDirtyForChunk(w2, chunk)))

-----------------------------------------------------------------------------
(* The active chunk map and the neighbour links *)

\* std::map<IntVector2, Chunk*> as a function on the active coordinates
MapPut(m, key, value) ==
    [k \in (DOMAIN m) \cup {key} |-> IF k = key THEN value ELSE m[k]]
MapErase(m, key) == [k \in (DOMAIN m) \ {key} |-> m[k]]
EmptyMap == [k \in {} |-> NULL]

EastCoords(c) == <<c[1] + 1, c[2]>>
WestCoords(c) == <<c[1] - 1, c[2]>>
NorthCoords(c) == <<c[1], c[2] + 1>>
SouthCoords(c) == <<c[1], c[2] - 1>>

\* LinkEast with the back link forgotten: only the new chunk's side is set
LinkEastOneWay(h, active, chunkToAdd, chunkCoords) ==
    IF EastCoords(chunkCoords) \in DOMAIN active
    THEN [h EXCEPT ![chunkToAdd].east = active[EastCoords(chunkCoords)]]
    ELSE h

LinkEast(h, active, chunkToAdd, chunkCoords) ==
    IF EastCoords(chunkCoords) \in DOMAIN active
    THEN LET eastChunk == active[EastCoords(chunkCoords)] IN
         [h EXCEPT ![chunkToAdd].east = eastChunk, ![eastChunk].west = chunkToAdd]
    ELSE h

LinkWest(h, active, chunkToAdd, chunkCoords) ==
    IF WestCoords(chunkCoords) \in DOMAIN active
    THEN LET westChunk == active[WestCoords(chunkCoords)] IN
         [h EXCEPT ![chunkToAdd].west = westChunk, ![westChunk].east = chunkToAdd]
    ELSE h

LinkNorth(h, active, chunkToAdd, chunkCoords) ==
    IF NorthCoords(chunkCoords) \in DOMAIN active
    THEN LET northChunk == active[NorthCoords(chunkCoords)] IN
         [h EXCEPT ![chunkToAdd].north = northChunk, ![northChunk].south = chunkToAdd]
    ELSE h

LinkSouth(h, active, chunkToAdd, chunkCoords) ==
    IF SouthCoords(chunkCoords) \in DOMAIN active
    THEN LET southChunk == active[SouthCoords(chunkCoords)] IN
         [h EXCEPT ![chunkToAdd].south = southChunk, ![southChunk].north = chunkToAdd]
    ELSE h

\* World::AddChunkToActiveList past its duplicate assertion: the map entry,
\* then the links to the neighbours that exist.  The heap afterwards.
AddChunkToActiveList(h, active, chunkToAdd) ==
    LET chunkCoords == h[chunkToAdd].coords
        added == MapPut(active, chunkCoords, chunkToAdd)
    IN LinkSouth(LinkNorth(LinkWest(LinkEast(h, added, chunkToAdd, chunkCoords),
                                    added, chunkToAdd, chunkCoords),
                           added, chunkToAdd, chunkCoords),
                 added, chunkToAdd, chunkCoords)

\* the same with the map entry and the links made before the assertion
AddChunkToActiveListThenDie(h, active, chunkToAdd) ==
    LET chunkCoords == h[chunkToAdd].coords IN
    [died |-> chunkCoords \in DOMAIN active,
     heap |-> AddChunkToActiveList(h, active, chunkToAdd),
     active |-> MapPut(active, chunkCoords, chunkToAdd)]

\* World::AddChunkToActiveList as a whole: ASSERT_OR_DIE on a coordinate the
\* map holds already, before anything is written; else the map entry and the
\* links
AddChunkToActiveListOrDie(h, active, chunkToAdd) ==
    LET chunkCoords == h[chunkToAdd].coords
        alreadyExists == chunkCoords \in DOMAIN active IN
    IF alreadyExists
    THEN [died |-> TRUE, heap |-> h, active |-> active]
    ELSE [died |-> FALSE, heap |-> AddChunkToActiveList(h, active, chunkToAdd),
          active |-> MapPut(active, chunkCoords, chunkToAdd)]

Unlink(h, neighbor, field) ==
    IF neighbor # NULL THEN [h EXCEPT ![neighbor][field] = NULL] ELSE h

\* World::RemoveChunkFromActiveList past its assertion: the heap afterwards
RemoveChunkFromActiveList(h, chunkToRemove) ==
    LET c == h[chunkToRemove]
        h1 == Unlink(h, c.east, "west")
        h2 == Unlink(h1, c.west, "east")
        h3 == Unlink(h2, c.north, "south")
        h4 == Unlink(h3, c.south, "north")
    IN [h4 EXCEPT ![chunkToRemove].east = NULL, ![chunkToRemove].west = NULL,
                  ![chunkToRemove].north = NULL, ![chunkToRemove].south = NULL]

\* World::RemoveChunkFromActiveList as a whole: ASSERT_OR_DIE on a coordinate
\* the map does not hold, before anything is written; else the entry is erased
\* and the links are taken down
RemoveChunkFromActiveListOrDie(h, active, chunkToRemove) ==
    LET chunkCoords == h[chunkToRemove].coords
        chunkExists == chunkCoords \in DOMAIN active IN
    IF ~chunkExists
    THEN [died |-> TRUE, heap |-> h, active |-> active]
    ELSE [died |-> FALSE, heap |-> RemoveChunkFromActiveList(h, chunkToRemove),
          active |-> MapErase(active, chunkCoords)]

-----------------------------------------------------------------------------
(* Distances and the two searches of the streaming scheme *)

\* Floor(position / CHUNK_DIMENSIONS) per axis
GetChunkCoordsForChunkThatContainsPosition(position) ==
    <<position[1] \div CHUNK_DIMENSIONS_X, position[2] \div CHUNK_DIMENSIONS_Y>>

\* chunk base position plus half the chunk's footprint (the dimensions are even)
ChunkXYCenter(chunkCoords) ==
    <<chunkCoords[1] * CHUNK_DIMENSIONS_X + CHUNK_DIMENSIONS_X \div 2,
      chunkCoords[2] * CHUNK_DIMENSIONS_Y + CHUNK_DIMENSIONS_Y \div 2>>

\* (chunkXYCenter - cameraXYPosition).GetLengthSquared()
DistanceSquared(chunkCoords, cameraXYPosition) ==
    LET c == ChunkXYCenter(chunkCoords) IN
    (c[1] - cameraXYPosition[1]) * (c[1] - cameraXYPosition[1])
    + (c[2] - cameraXYPosition[2]) * (c[2] - cameraXYPosition[2])

Ceiling(a, b) == (a + b - 1) \div b

\* the running minimum started one block too far out
InitialMinDistanceTooFar(activationRange) == (activationRange + 1) * (activationRange + 1)

\* what the search starts its running minimum at
InitialMinDistance(activationRange) == activationRange * activationRange

\* the scan of World::GetClosestInactiveChunkCoordsToPlayerWithinActivationRange
\* from (x, y) on: rows y up to endY, in each row x from startX up to endX
RECURSIVE ClosestInactiveScan(_, _, _, _, _, _, _, _)
ClosestInactiveScan(active, cam, x, y, startX, endX, endY, acc) ==
    IF y > endY THEN acc
    ELSE IF x > endX THEN ClosestInactiveScan(active, cam, startX, y + 1, startX, endX, endY, acc)
    ELSE LET currChunkCoords == <<x, y>>
             distanceSquared == DistanceSquared(currChunkCoords, cam) IN
         IF currChunkCoords \in DOMAIN active
         THEN ClosestInactiveScan(active, cam, x + 1, y, startX, endX, endY, acc)
         ELSE IF distanceSquared < acc.minDistanceSoFar
              THEN ClosestInactiveScan(active, cam, x + 1, y, startX, endX, endY,
                       [minDistanceSoFar |-> distanceSquared, found |-> TRUE,
                        coords |-> currChunkCoords])
              ELSE ClosestInactiveScan(active, cam, x + 1, y, startX, endX, endY, acc)

\* the search with its distances taken from the origin of the camera's chunk
GetClosestInactiveChunkCoordsToChunkOriginWithinActivationRange(active, cam, activationRange) ==
    LET chunkSpanX == Ceiling(activationRange, CHUNK_DIMENSIONS_X)
        chunkSpanY == Ceiling(activationRange, CHUNK_DIMENSIONS_Y)
        chunkContainingCamera == GetChunkCoordsForChunkThatContainsPosition(cam)
        startX == chunkContainingCamera[1] - chunkSpanX
        startY == chunkContainingCamera[2] - chunkSpanY
        endX == chunkContainingCamera[1] + chunkSpanX
        endY == chunkContainingCamera[2] + chunkSpanY
    IN ClosestInactiveScan(active,
           <<chunkContainingCamera[1] * CHUNK_DIMENSIONS_X,
             chunkContainingCamera[2] * CHUNK_DIMENSIONS_Y>>,
           startX, startY, startX, endX, endY,
           [minDistanceSoFar |-> InitialMinDistance(activationRange), found |-> FALSE,
            coords |-> <<0, 0>>])

GetClosestInactiveChunkCoordsToPlayerWithinActivationRange(active, cam, activationRange) ==
    LET chunkSpanX == Ceiling(activationRange, CHUNK_DIMENSIONS_X)
        chunkSpanY == Ceiling(activationRange, CHUNK_DIMENSIONS_Y)
        chunkContainingCamera == GetChunkCoordsForChunkThatContainsPosition(cam)
        startX == chunkContainingCamera[1] - chunkSpanX
        startY == chunkContainingCamera[2] - chunkSpanY
        endX == chunkContainingCamera[1] + chunkSpanX
        endY == chunkContainingCamera[2] + chunkSpanY
    IN ClosestInactiveScan(active, cam, startX, startY, startX, endX, endY,
           [minDistanceSoFar |-> InitialMinDistance(activationRange), found |-> FALSE,
            coords |-> <<0, 0>>])

\* the order std::map iterates its IntVector2 keys in
CoordLess(a, b) == a[1] < b[1] \/ (a[1] = b[1] /\ a[2] < b[2])

FirstCoord(keys) == CHOOSE k \in keys : \A o \in keys : o = k \/ CoordLess(k, o)

\* the candidate test with the boundary included
AtOrOutsideDeactivationRange(distanceSquared, deactivationRangeSquared) ==
    distanceSquared >= deactivationRangeSquared

\* whether a chunk at distanceSquared is a candidate for deactivation
OutsideDeactivationRange(distanceSquared, deactivationRangeSquared) ==
    distanceSquared > deactivationRangeSquared

\* the loop of World::GetFarthestActiveChunkToPlayerOutsideDeactivationRange
\* over the keys not yet visited
RECURSIVE FarthestActiveScan(_, _, _, _, _)
FarthestActiveScan(active, keys, cam, deactivationRangeSquared, acc) ==
    IF keys = {} THEN acc
    ELSE LET k == FirstCoord(keys)
             distanceSquared == DistanceSquared(k, cam) IN
         FarthestActiveScan(active, keys \ {k}, cam, deactivationRangeSquared,
             IF /\ OutsideDeactivationRange(distanceSquared, deactivationRangeSquared)
                /\ distanceSquared > acc.maxDistance
             THEN [maxDistance |-> distanceSquared, chunk |-> active[k]]
             ELSE acc)

\* the closest of the chunks outside the range, as the comment on the
\* function has it
GetClosestActiveChunkToPlayerOutsideDeactivationRange(active, cam, cfg) ==
    LET deactivationRange == cfg.activation_range + cfg.deactivation_offset
        outside == {k \in DOMAIN active :
                       DistanceSquared(k, cam) > deactivationRange * deactivationRange}
    IN IF outside = {} THEN NULL
       ELSE active[CHOOSE k \in outside :
                       \A o \in outside : DistanceSquared(k, cam) <= DistanceSquared(o, cam)]

\* the chunk to deactivate, or NULL
GetFarthestActiveChunkToPlayerOutsideDeactivationRange(active, cam, cfg) ==
    LET deactivationRange == cfg.activation_range + cfg.deactivation_offset IN
    FarthestActiveScan(active, DOMAIN active, cam, deactivationRange * deactivationRange,
                       [maxDistance |-> 0, chunk |-> NULL]).chunk

\* Chunk::HasAllFourNeighbors
HasAllFourNeighbors(c) ==
    c.east # NULL /\ c.west # NULL /\ c.north # NULL /\ c.south # NULL

\* the loop of World::GetClosestActiveChunkToPlayerWithDirtyMesh
RECURSIVE ClosestDirtyMeshScan(_, _, _, _, _)
ClosestDirtyMeshScan(h, active, keys, cam, acc) ==
    IF keys = {} THEN acc
    ELSE LET k == FirstCoord(keys)
             currChunk == h[active[k]]
             distanceSquared == DistanceSquared(k, cam) IN
         ClosestDirtyMeshScan(h, active, keys \ {k}, cam,
             IF ~currChunk.meshDirty \/ ~HasAllFourNeighbors(currChunk) THEN acc
             ELSE IF ~acc.found \/ distanceSquared < acc.minDistance
                  THEN [minDistance |-> distanceSquared, found |-> TRUE, coords |-> k]
                  ELSE acc)

\* the search without the test for the four neighbours
GetClosestActiveChunkToPlayerWithDirtyMeshOnly(h, active, cam) ==
    LET dirty == {k \in DOMAIN active : h[active[k]].meshDirty} IN
    IF dirty = {} THEN [minDistance |-> 0, found |-> FALSE, coords |-> <<0, 0>>]
    ELSE LET k == CHOOSE c \in dirty :
                      \A d \in dirty : DistanceSquared(c, cam) <= DistanceSquared(d, cam)
         IN [minDistance |-> DistanceSquared(k, cam), found |-> TRUE, coords |-> k]

GetClosestActiveChunkToPlayerWithDirtyMesh(h, active, cam) ==
    ClosestDirtyMeshScan(h, active, DOMAIN active, cam,
                         [minDistance |-> 0, found |-> FALSE, coords |-> <<0, 0>>])

\* World::CheckToBuildChunkMesh: Chunk::BuildMesh on the chunk found clears
\* its dirty-mesh flag
CheckToBuildChunkMesh(h, active, cam) ==
    LET r == GetClosestActiveChunkToPlayerWithDirtyMesh(h, active, cam) IN
    IF r.found THEN [h EXCEPT ![active[r.coords]].meshDirty = FALSE] ELSE h

\* the file written whatever the chunk's flag says
DiskAfterDeactivateAlways(d, c) ==
    MapPut(d, c.coords, WriteToFile(TypesOf(c.blocks), ChunkGeometry))

\* World::DeactivateChunk: the file is written if the chunk asks for it
DiskAfterDeactivate(d, c) ==
    IF c.needsSave THEN MapPut(d, c.coords, WriteToFile(TypesOf(c.blocks), ChunkGeometry))
    ELSE d

-----------------------------------------------------------------------------
(* Inputs of the model *)

\* where the camera can be after Game::GetGameCamera()->Update()
CameraPositions == {<<1, 1>>, <<2, 1>>, <<1, 2>>, <<3, 1>>}

\* where the camera can be when the player walks in long strides: the
\* centres of chunks (0, 0), (1, 0) and (3, 0)
FarCameraPositions == {<<1, 1>>, <<3, 1>>, <<7, 1>>}

\* the world with a wide band between activation and deactivation
WideBandConfig == [activation_range |-> 1, deactivation_offset |-> 2]

\* the world where a chunk and its four neighbours are in range of a camera
\* that stands in the middle of the chunk
CrossConfig == [activation_range |-> 3, deactivation_offset |-> 1]

\* the player on the spot or one chunk to the east: the centres of chunks
\* (0, 0) and (1, 0)
CrossCameraPositions == {<<1, 1>>, <<3, 1>>}

\* the free addresses of a heap
FreeAddrs(h) == {a \in DOMAIN h : ~h[a].live}

\* the addresses operator new can return for the next chunk: any free one,
\* and in the run of the cross the lowest free one
AddrsOfNew(cfg, h) ==
    IF cfg = CrossConfig
    THEN {a \in FreeAddrs(h) : \A b \in FreeAddrs(h) : a <= b}
    ELSE FreeAddrs(h)

\* the worlds of a player who walks and watches and touches nothing: one with
\* a band between activation and deactivation, one without
StreamConfigs == {[activation_range |-> 2, deactivation_offset |-> 1],
                  [activation_range |-> 1, deactivation_offset |-> 0]}

\* that player's walk: the centres of chunks (0, 0), (1, 0) and (3, 0)
StreamCameraPositions == {<<1, 1>>, <<3, 1>>, <<4, 1>>, <<7, 1>>}

\* the walk of the player: long strides in the wide band, which short ones
\* never leave
CameraPositionsFor(cfg) ==
    IF cfg = WideBandConfig THEN FarCameraPositions
    ELSE IF cfg = CrossConfig THEN CrossCameraPositions
    ELSE IF cfg \in StreamConfigs THEN StreamCameraPositions ELSE CameraPositions

\* what a mouse button or a key can be in a frame: pressed or not, and never
\* pressed by the player who touches nothing
ButtonsFor(cfg) == IF cfg \in StreamConfigs THEN {FALSE} ELSE BOOLEAN

\* the config blackboard's activation_range and deactivation_offset
Configs == {[activation_range |-> 2, deactivation_offset |-> 0],
            [activation_range |-> 1, deactivation_offset |-> 1]}

\* a chunk saved by an earlier run: two layers of stone, a layer that is air
\* on the east side (x = 1) and stone on the west, and a stone roof
CaveTypes == [i \in BlockIndices |->
                 IF ZBits(i) = 2 /\ XBits(i) = 1 THEN AIR_TYPE_INDEX ELSE STONE_TYPE_INDEX]

\* what Saves/ holds when the game starts
InitialDisks == {EmptyMap,
                 MapPut(EmptyMap, <<0, 0>>, WriteToFile(CaveTypes, ChunkGeometry))}

\* the block type a right click places (m_blockTypeToPlace), Glowstone with shift
PlacedType(shift) == IF shift THEN GLOWSTONE_TYPE_INDEX ELSE STONE_TYPE_INDEX

\* the impact normals Raycast can report: minus the unit step along one axis
ImpactNormals == {<<1, 0, 0>>, <<-1, 0, 0>>, <<0, 1, 0>>, <<0, -1, 0>>,
                  <<0, 0, 1>>, <<0, 0, -1>>}

NoImpact == [impact |-> FALSE, block |-> BlockLocator(NULL, 0), normal |-> <<0, 0, 0>>]

\* the block the player's ray is aimed at, in whichever chunk is active: the
\* block at x = 1, y = 0, z = 1, on a chunk's east edge
RaycastBlockIndices == {GetBlockIndexFromBlockCoords(1, 0, 1)}

\* the faces the ray comes in through: from the east and from above
RaycastNormals == {<<1, 0, 0>>, <<0, 0, 1>>}

\* the chunks the player can aim at: any active chunk, and in the run of the
\* cross the chunk the player started on
CoordsInSight(cfg, active) ==
    IF cfg = CrossConfig THEN DOMAIN active \cap {<<0, 0>>} ELSE DOMAIN active

\* m_lastRaycastResult as the last UpdateRaycast left it: no impact, or an
\* impact on a solid block of an active chunk through one of its faces
RaycastResults(h, active) ==
    {NoImpact} \cup
    {[impact |-> TRUE, block |-> BlockLocator(active[k], i), normal |-> n] :
        k \in CoordsInSight(config, active), i \in RaycastBlockIndices, n \in RaycastNormals}

RaycastResultIsPossible(h, ray) ==
    IF ray.impact THEN IsSolid(h[ray.block.chunk].blocks[ray.block.index]) ELSE TRUE

\* BlockLocator::StepInCoordDirection for a unit step along one axis
StepInCoordDirection(h, loc, step) ==
    CASE step = <<1, 0, 0>> -> ToEast(h, loc)
      [] step = <<-1, 0, 0>> -> ToWest(h, loc)
      [] step = <<0, 1, 0>> -> ToNorth(h, loc)
      [] step = <<0, -1, 0>> -> ToSouth(h, loc)
      [] step = <<0, 0, 1>> -> ToAbove(loc)
      [] step = <<0, 0, -1>> -> ToBelow(loc)

-----------------------------------------------------------------------------
(* World::ProcessInput *)

\* chunk->SetBlockTypeAtBlockIndex(index, type); chunk->SetNeedsToBeSavedToDisk(true)
ChangeBlockType(w, loc, typeIndex) ==
    [w EXCEPT !.heap[loc.chunk].blocks =
                  SetBlockTypeAtBlockIndex(w.heap[loc.chunk].blocks, loc.index, typeIndex),
              !.heap[loc.chunk].meshDirty = TRUE,
              !.heap[loc.chunk].needsSave = TRUE]

\* what DigBlock does after the block has become air
AfterDig(w, blockToDig) == AddBlockToDirtyLightingList(w, blockToDig)

DigBlock(w, blockToDig) ==
    AfterDig(ChangeBlockType(w, blockToDig, AIR_TYPE_INDEX), blockToDig)

\* the right-click branch, once the locator of the placed block is known
PlaceBlock(w, blockBeingPlaced, typeIndex) ==
    ChangeBlockType(w, blockBeingPlaced, typeIndex)

\* the mass deactivation loop over one more chunk: written if it asks, deleted
RECURSIVE WriteAllThatNeedIt(_, _, _, _)
WriteAllThatNeedIt(d, h, active, keys) ==
    IF keys = {} THEN d
    ELSE LET k == FirstCoord(keys) IN
         WriteAllThatNeedIt(DiskAfterDeactivate(d, h[active[k]]), h, active, keys \ {k})

DeleteAll(h, active) ==
    [a \in Addrs |-> IF \E k \in DOMAIN active : active[k] = a THEN FreedChunk ELSE h[a]]

Noted(op, coords, d2, chunk) == [op |-> op, coords |-> coords, d2 |-> d2, chunk |-> chunk]

ProcessInput ==
    /\ pc = "input"
    /\ \E ray \in RaycastResults(heap, m_activeChunks), left \in ButtonsFor(config),
          right \in ButtonsFor(config), shift \in ButtonsFor(config),
          keyU \in ButtonsFor(config), survives \in BOOLEAN :
          LET n == (IF left THEN 1 ELSE 0) + (IF right THEN 1 ELSE 0)
              w0 == World(heap, m_dirtyLightingBlocks, MISSING_BLOCK)
              w1 == IF left THEN DigBlock(w0, ray.block) ELSE w0
              blockBeingPlaced == StepInCoordDirection(w1.heap, ray.block, ray.normal)
              nullChunk == right /\ blockBeingPlaced.chunk = NULL
              w2 == IF right /\ ~nullChunk
                    THEN PlaceBlock(w1, blockBeingPlaced, PlacedType(shift)) ELSE w1
          IN /\ RaycastResultIsPossible(heap, ray)
             /\ IF left \/ right THEN ray.impact ELSE TRUE
             /\ IF shift THEN right ELSE TRUE
             /\ IF survives THEN TRUE ELSE nullChunk
             /\ edits + n <= MaxEdits
             /\ edits' = edits + n
             /\ MISSING_BLOCK' = w2.missing
             /\ m_dirtyLightingBlocks' = w2.queue
             /\ IF nullChunk /\ ~survives
                THEN \* the write through the null chunk pointer faults
                     /\ pc' = "crashed"
                     /\ heap' = w2.heap
                     /\ UNCHANGED <<m_activeChunks, disk>>
                     /\ last' = Noted("faultPlace", <<0, 0>>, 0, NULL)
                ELSE IF keyU
                THEN /\ pc' = "activate"
                     /\ disk' = WriteAllThatNeedIt(disk, w2.heap, m_activeChunks,
                                                   DOMAIN m_activeChunks)
                     /\ heap' = DeleteAll(w2.heap, m_activeChunks)
                     /\ m_activeChunks' = EmptyMap
                     /\ last' = Noted("massDeactivate", <<0, 0>>, n, NULL)
                ELSE /\ pc' = "activate"
                     /\ heap' = w2.heap
                     /\ UNCHANGED <<m_activeChunks, disk>>
                     /\ last' = Noted(IF left /\ right THEN "digAndPlace"
                                      ELSE IF left THEN "dig"
                                      ELSE IF right THEN "place" ELSE "input",
                                      <<0, 0>>, n,
                                      IF right THEN blockBeingPlaced.chunk ELSE ray.block.chunk)
    /\ UNCHANGED <<config, camera>>

-----------------------------------------------------------------------------
(* World::Update, step by step *)

\* the camera moves, then World::CheckToActivateChunks.  If the file of the
\* chunk is read past its end, the read faults or comes back with the byte
\* the memory there holds.
CheckToActivateChunks ==
    /\ pc = "activate"
    /\ \E cam \in CameraPositionsFor(config) :
          \E found \in {GetClosestInactiveChunkCoordsToPlayerWithinActivationRange(
                            m_activeChunks, cam, config.activation_range)} :
             /\ camera' = cam
             /\ IF found.found
                THEN \E chunk \in AddrsOfNew(config, heap), beyond \in BeyondBytes,
                        survives \in BOOLEAN :
                        /\ ~heap[chunk].live
                        /\ IF FileReadPastEnd(disk, found.coords, beyond) THEN TRUE
                           ELSE survives /\ beyond = 0
                        /\ IF survives
                           THEN \E populated \in
                                    {[NewChunk(found.coords) EXCEPT !.blocks =
                                         PopulateBlocksOnChunk(NewChunk(found.coords).blocks,
                                                               found.coords, disk, beyond)]} :
                                \E added \in
                                    {AddChunkToActiveListOrDie(
                                         [heap EXCEPT ![chunk] = populated],
                                         m_activeChunks, chunk)} :
                                   IF added.died
                                   THEN /\ heap' = added.heap
                                        /\ m_activeChunks' = added.active
                                        /\ UNCHANGED <<m_dirtyLightingBlocks, MISSING_BLOCK>>
                                        /\ last' = Noted("assertAdd", found.coords,
                                                         DistanceSquared(found.coords, cam),
                                                         chunk)
                                        /\ pc' = "crashed"
                                   ELSE \E w \in
                                            {InitializeLightingForChunk(
                                                 World(added.heap, m_dirtyLightingBlocks,
                                                       MISSING_BLOCK),
                                                 chunk)} :
                                           /\ heap' = w.heap
                                           /\ m_dirtyLightingBlocks' = w.queue
                                           /\ MISSING_BLOCK' = w.missing
                                           /\ m_activeChunks' = added.active
                                           /\ last' = Noted("activate", found.coords,
                                                            DistanceSquared(found.coords, cam),
                                                            chunk)
                                           /\ pc' = "deactivate"
                           ELSE /\ heap' = [heap EXCEPT ![chunk] = NewChunk(found.coords)]
                                /\ UNCHANGED <<m_dirtyLightingBlocks, MISSING_BLOCK,
                                               m_activeChunks>>
                                /\ last' = Noted("faultLoad", found.coords,
                                                 DistanceSquared(found.coords, cam), chunk)
                                /\ pc' = "crashed"
                ELSE /\ UNCHANGED <<heap, m_dirtyLightingBlocks, MISSING_BLOCK, m_activeChunks>>
                     /\ last' = Noted("noActivate", <<0, 0>>, 0, NULL)
                     /\ pc' = "deactivate"
    /\ UNCHANGED <<config, disk, edits>>

\* World::CheckToDeactivateChunks up to its call of DeactivateChunk: the
\* search and RemoveChunkFromActiveList
CheckToDeactivateChunks ==
    /\ pc = "deactivate"
    /\ LET chunkToDeactivate == GetFarthestActiveChunkToPlayerOutsideDeactivationRange(
                                    m_activeChunks, camera, config)
       IN IF chunkToDeactivate # NULL
          THEN LET chunkCoords == heap[chunkToDeactivate].coords
                   removed == RemoveChunkFromActiveListOrDie(heap, m_activeChunks,
                                                             chunkToDeactivate)
               IN /\ m_activeChunks' = removed.active
                  /\ heap' = removed.heap
                  /\ last' = Noted(IF removed.died THEN "assertRemove" ELSE "deactivate",
                                   chunkCoords, DistanceSquared(chunkCoords, camera),
                                   chunkToDeactivate)
                  /\ pc' = IF removed.died THEN "crashed" ELSE "deactivateChunk"
          ELSE /\ UNCHANGED <<m_activeChunks, heap>>
               /\ last' = Noted("noDeactivate", <<0, 0>>, 0, NULL)
               /\ pc' = "light"
    /\ UNCHANGED <<config, camera, m_dirtyLightingBlocks, MISSING_BLOCK, disk, edits>>

\* the chunk CheckToDeactivateChunks hands to DeactivateChunk: alive and no
\* longer in the map
ChunkToDeactivate ==
    CHOOSE chunk \in Addrs :
        heap[chunk].live /\ \A k \in DOMAIN m_activeChunks : m_activeChunks[k] # chunk

\* World::DeactivateChunk: WriteToFile if the chunk asks for it, then delete
DeactivateChunk ==
    /\ pc = "deactivateChunk"
    /\ disk' = DiskAfterDeactivate(disk, heap[ChunkToDeactivate])
    /\ heap' = [heap EXCEPT ![ChunkToDeactivate] = FreedChunk]
    /\ pc' = "light"
    /\ UNCHANGED <<config, camera, m_activeChunks, m_dirtyLightingBlocks, MISSING_BLOCK,
                   edits, last>>

\* the front locator points at a deleted chunk that no later chunk took the
\* address of
FrontDangles == /\ m_dirtyLightingBlocks # <<>>
                /\ Head(m_dirtyLightingBlocks).chunk # NULL
                /\ ~heap[Head(m_dirtyLightingBlocks).chunk].live

\* one round of the loop of World::UpdateLighting
RelaxFront ==
    /\ pc = "light"
    /\ m_dirtyLightingBlocks # <<>>
    /\ ~FrontDangles
    /\ ~StepDerefsNull(Head(m_dirtyLightingBlocks))
    /\ LET blockLocator == Head(m_dirtyLightingBlocks)
           w1 == RemoveFrontBlockFromDirtyLightingList(
                     World(heap, m_dirtyLightingBlocks, MISSING_BLOCK))
           w2 == RecalculateLightingForBlock(w1, blockLocator)
       IN /\ heap' = w2.heap
          /\ m_dirtyLightingBlocks' = w2.queue
          /\ MISSING_BLOCK' = w2.missing
          /\ last' = Noted("relax", <<0, 0>>, blockLocator.index, blockLocator.chunk)
    /\ UNCHANGED <<pc, config, camera, m_activeChunks, disk, edits>>

\* the round for a missing locator: the sentinel's flag is cleared, then
\* RecalculateLightingForBlock steps east or west, north or south through the
\* null chunk pointer.  The build faults, or the read comes back as null.
RelaxMissing ==
    /\ pc = "light"
    /\ m_dirtyLightingBlocks # <<>>
    /\ StepDerefsNull(Head(m_dirtyLightingBlocks))
    /\ LET blockLocator == Head(m_dirtyLightingBlocks)
           w1 == RemoveFrontBlockFromDirtyLightingList(
                     World(heap, m_dirtyLightingBlocks, MISSING_BLOCK))
           w2 == RecalculateLightingForBlock(w1, blockLocator)
       IN \/ /\ pc' = "crashed"
             /\ heap' = w1.heap
             /\ m_dirtyLightingBlocks' = w1.queue
             /\ MISSING_BLOCK' = w1.missing
             /\ last' = Noted("faultMissing", <<0, 0>>, blockLocator.index, NULL)
          \/ /\ pc' = pc
             /\ heap' = w2.heap
             /\ m_dirtyLightingBlocks' = w2.queue
             /\ MISSING_BLOCK' = w2.missing
             /\ last' = Noted("relaxMissing", <<0, 0>>, blockLocator.index, NULL)
    /\ UNCHANGED <<config, camera, m_activeChunks, disk, edits>>

\* the round for a locator into freed memory: the build faults, or the
\* accesses go to memory no live object occupies and only the pop is seen
RelaxDangling ==
    /\ pc = "light"
    /\ FrontDangles
    /\ m_dirtyLightingBlocks' = Tail(m_dirtyLightingBlocks)
    /\ \/ pc' = "crashed" /\ last' = Noted("faultDangling", <<0, 0>>, 0, Head(m_dirtyLightingBlocks).chunk)
       \/ pc' = pc /\ last' = Noted("relaxDangling", <<0, 0>>, 0, Head(m_dirtyLightingBlocks).chunk)
    /\ UNCHANGED <<config, camera, heap, m_activeChunks, MISSING_BLOCK, disk, edits>>

\* the deque is empty: UpdateLighting returns, CheckToBuildChunkMesh runs and
\* the frame ends
FinishUpdate ==
    /\ pc = "light"
    /\ m_dirtyLightingBlocks = <<>>
    /\ heap' = CheckToBuildChunkMesh(heap, m_activeChunks, camera)
    /\ pc' = "input"
    /\ last' = LET r == GetClosestActiveChunkToPlayerWithDirtyMesh(heap, m_activeChunks, camera)
               IN IF r.found
                  THEN Noted("endOfUpdate", r.coords, 0, m_activeChunks[r.coords])
                  ELSE Noted("endOfUpdate", <<0, 0>>, 0, NULL)
    /\ UNCHANGED <<config, camera, m_activeChunks, m_dirtyLightingBlocks, MISSING_BLOCK,
                   disk, edits>>

Init ==
    /\ pc = "input"
    /\ config \in Configs
    /\ camera = <<1, 1>>
    /\ heap = [a \in 1 .. NumAddrs |-> FreedChunk]
    /\ m_activeChunks = EmptyMap
    /\ m_dirtyLightingBlocks = <<>>
    /\ MISSING_BLOCK = NewBlock
    /\ disk \in InitialDisks
    /\ edits = 0
    /\ last = Noted("init", <<0, 0>>, 0, NULL)

Next ==
    \/ ProcessInput
    \/ CheckToActivateChunks
    \/ CheckToDeactivateChunks
    \/ DeactivateChunk
    \/ RelaxFront
    \/ RelaxMissing
    \/ RelaxDangling
    \/ FinishUpdate

Spec == Init /\ [][Next]_vars

-----------------------------------------------------------------------------
(* The chunk file on its own: a chunk is written with Chunk::WriteToFile    *)
(* and the file is read back into a fresh chunk with                        *)
(* Chunk::InitializeFromFile, at a geometry of 4 x 4 x 32 blocks, so that   *)
(* one block type can run on past the 255 a length byte holds.              *)

FileGeometry == [bx |-> 2, by |-> 2, bz |-> 5]
FileBlockIndices == 0 .. (BlocksOfGeometry(FileGeometry) - 1)
FileChunkCoords == <<0, 0>>

\* where the block type changes along the block array
FileChangePoints == {0, 1, RLE_LIMIT - 1, RLE_LIMIT, RLE_LIMIT + 1,
                     2 * RLE_LIMIT, 2 * RLE_LIMIT + 1, BlocksOfGeometry(FileGeometry)}

\* a block array of type t1, of type t2 from index a up to index b
FileTypes(a, b, t1, t2) ==
    [i \in FileBlockIndices |-> IF a <= i /\ i < b THEN t2 ELSE t1]

FileInputs ==
    {FileTypes(a, b, t1, t2) : a \in FileChangePoints, b \in FileChangePoints,
                               t1 \in {AIR_TYPE_INDEX, STONE_TYPE_INDEX},
                               t2 \in {STONE_TYPE_INDEX, GLOWSTONE_TYPE_INDEX}}

\* a chunk of the file geometry, as its constructor leaves it
NewFileChunk ==
    [NewChunk(FileChunkCoords) EXCEPT !.blocks = [i \in FileBlockIndices |-> NewBlock]]

\* the addresses of the chunk that is written and of the chunk that is read
WrittenChunk == 1
ReadChunk == 2

InitFile ==
    /\ pc = "fileWrite"
    /\ config \in {[activation_range |-> 2, deactivation_offset |-> 0]}
    /\ camera = <<1, 1>>
    /\ \E types \in FileInputs :
          heap = [a \in 1 .. NumAddrs |->
                     IF a = WrittenChunk
                     THEN [NewFileChunk EXCEPT
                              !.blocks = [i \in FileBlockIndices |->
                                             [NewBlock EXCEPT !.type = types[i]]],
                              !.needsSave = TRUE]
                     ELSE FreedChunk]
    /\ m_activeChunks = EmptyMap
    /\ m_dirtyLightingBlocks = <<>>
    /\ MISSING_BLOCK = NewBlock
    /\ disk = EmptyMap
    /\ edits = 0
    /\ last = Noted("init", <<0, 0>>, 0, NULL)

\* Chunk::WriteToFile on the chunk
WriteChunkFile ==
    /\ pc = "fileWrite"
    /\ disk' = MapPut(disk, heap[WrittenChunk].coords,
                      WriteToFile(TypesOf(heap[WrittenChunk].blocks), FileGeometry))
    /\ pc' = "fileLoad"
    /\ last' = Noted("written", heap[WrittenChunk].coords, 0, WrittenChunk)
    /\ UNCHANGED <<config, camera, heap, m_activeChunks, m_dirtyLightingBlocks,
                   MISSING_BLOCK, edits>>

\* new Chunk(coords), then Chunk::InitializeFromFile on it
LoadChunkFile ==
    /\ pc = "fileLoad"
    /\ LET fromFile == InitializeFromFile(NewFileChunk.blocks,
                                          FileOf(disk, FileChunkCoords), 0, FileGeometry)
       IN /\ heap' = [heap EXCEPT ![ReadChunk] =
                         [NewFileChunk EXCEPT !.blocks = fromFile.blocks]]
          /\ last' = Noted(IF fromFile.ok THEN "loaded" ELSE "loadFailed",
                           FileChunkCoords, 0, ReadChunk)
    /\ pc' = "fileDone"
    /\ UNCHANGED <<config, camera, m_activeChunks, m_dirtyLightingBlocks,
                   MISSING_BLOCK, disk, edits>>

NextFile ==
    \/ WriteChunkFile
    \/ LoadChunkFile

SpecFile == InitFile /\ [][NextFile]_vars

-----------------------------------------------------------------------------
(* Chunk::InitializeFromFile on files WriteToFile did not write: a saved     *)
(* file with a byte changed, cut short or with bytes added, read into a      *)
(* fresh chunk of the world's geometry.                                      *)

\* a saved chunk of stone only: one run of 16
StoneTypes == [i \in BlockIndices |-> STONE_TYPE_INDEX]

SavedFiles == {WriteToFile(CaveTypes, ChunkGeometry), WriteToFile(StoneTypes, ChunkGeometry)}

\* file with the byte at offset (from 0) replaced
WithByte(file, offset, byte) == [file EXCEPT ![offset + 1] = byte]

\* the first fileSize bytes of file
CutShort(file, fileSize) == SubSeq(file, 1, fileSize)

\* the files found in Saves/: as saved, one byte of the header or one length
\* byte off by one, cut short at any length, or with one or two bytes added
FilesFound ==
    UNION {{file} \cup
           {WithByte(file, offset, (ByteAt(file, offset) + 1) % BYTE_RANGE) :
               offset \in 0 .. (SIZEOF_HEADER + 1)} \cup
           {CutShort(file, fileSize) : fileSize \in 0 .. Len(file)} \cup
           {file \o <<STONE_TYPE_INDEX>>, file \o <<STONE_TYPE_INDEX, 0>>,
            file \o <<STONE_TYPE_INDEX, 1>>} : file \in SavedFiles}

LoadNoted(op, beyond, read, written) ==
    [op |-> op, beyond |-> beyond, read |-> read, written |-> written]

InitLoad ==
    /\ pc = "loadFound"
    /\ config \in {[activation_range |-> 2, deactivation_offset |-> 0]}
    /\ camera = <<1, 1>>
    /\ heap = [a \in 1 .. NumAddrs |-> IF a = ReadChunk THEN NewChunk(FileChunkCoords) ELSE FreedChunk]
    /\ m_activeChunks = EmptyMap
    /\ m_dirtyLightingBlocks = <<>>
    /\ MISSING_BLOCK = NewBlock
    /\ \E file \in FilesFound : disk = MapPut(EmptyMap, FileChunkCoords, file)
    /\ edits = 0
    /\ last = LoadNoted("init", 0, {}, {})

\* Chunk::InitializeFromFile on the fresh chunk.  A read past the file's
\* buffer faults, or comes back with the byte the memory there holds.
LoadFoundFile ==
    /\ pc = "loadFound"
    /\ \E beyond \in BeyondBytes, survives \in BOOLEAN :
          LET file == FileOf(disk, FileChunkCoords)
              past == ReadsPastFile(file, beyond, ChunkGeometry)
              fromFile == InitializeFromFile(heap[ReadChunk].blocks, file, beyond,
                                             ChunkGeometry)
          IN /\ IF past THEN TRUE ELSE survives /\ beyond = 0
             /\ IF survives
                THEN /\ pc' = "loadDone"
                     /\ heap' = [heap EXCEPT ![ReadChunk].blocks = fromFile.blocks]
                     /\ last' = LoadNoted(IF fromFile.ok THEN "loaded" ELSE "loadFailed",
                                          beyond,
                                          OffsetsRead(file, beyond, ChunkGeometry),
                                          BlockIndicesWritten(file, beyond, ChunkGeometry))
                ELSE /\ pc' = "crashed"
                     /\ heap' = heap
                     /\ last' = LoadNoted("faultRead", beyond,
                                          OffsetsRead(file, beyond, ChunkGeometry), {})
    /\ UNCHANGED <<config, camera, m_activeChunks, m_dirtyLightingBlocks,
                   MISSING_BLOCK, disk, edits>>

NextLoad ==
    \/ LoadFoundFile

SpecLoad == InitLoad /\ [][NextLoad]_vars

-----------------------------------------------------------------------------
(* The world started on a Saves/ directory whose file for chunk (0, 0) is    *)
(* not one WriteToFile wrote.                                                *)

\* the cave file with its magic spoiled, and the stone file cut short after
\* the type byte of its only pair or inside its header
SpoiledFiles ==
    {WithByte(WriteToFile(CaveTypes, ChunkGeometry), 0, Char_R),
     CutShort(WriteToFile(StoneTypes, ChunkGeometry), SIZEOF_HEADER + 1),
     CutShort(WriteToFile(StoneTypes, ChunkGeometry), 3)}

InitSpoiled ==
    /\ pc = "input"
    /\ config \in {[activation_range |-> 1, deactivation_offset |-> 1]}
    /\ camera = <<1, 1>>
    /\ heap = [a \in 1 .. NumAddrs |-> FreedChunk]
    /\ m_activeChunks = EmptyMap
    /\ m_dirtyLightingBlocks = <<>>
    /\ MISSING_BLOCK = NewBlock
    /\ \E file \in SpoiledFiles : disk = MapPut(EmptyMap, <<0, 0>>, file)
    /\ edits = 0
    /\ last = Noted("init", <<0, 0>>, 0, NULL)

SpecSpoiled == InitSpoiled /\ [][Next]_vars

-----------------------------------------------------------------------------
(* World::Raycast.  A float is a fixed-point number, FLOAT_ONE units to     *)
(* 1.0f; a Vector3 or IntVector3 is a tuple <<x, y, z>>.                    *)

\* the fixed-point value of 1.0f
FLOAT_ONE == 500

RAYCAST_STEPS_PER_BLOCK == 100
DEFAULT_RAYCAST_DISTANCE == 8 * FLOAT_ONE

\* a * b and a / b of two floats, and (float) of an int
FloatMul(a, b) == (a * b) \div FLOAT_ONE
FloatDiv(a, b) == (a * FLOAT_ONE) \div b
ToFloat(n) == n * FLOAT_ONE

\* (int) of a float that is not negative, and Floor
ToInt(a) == a \div FLOAT_ONE
Floor(a) == a \div FLOAT_ONE

FloorPositionToIntegerCoords(position) ==
    <<Floor(position[1]), Floor(position[2]), Floor(position[3])>>

\* start + (distance * directionNormal)
PointAlong(start, directionNormal, distance) ==
    <<start[1] + FloatMul(distance, directionNormal[1]),
      start[2] + FloatMul(distance, directionNormal[2]),
      start[3] + FloatMul(distance, directionNormal[3])>>

GetChunkThatContainsFlooredPosition(active, flooredPosition) ==
    IF flooredPosition[3] < 0 \/ flooredPosition[3] >= CHUNK_DIMENSIONS_Z
    THEN NULL
    ELSE LET chunkCoords ==
                 <<Floor(FloatDiv(ToFloat(flooredPosition[1]), ToFloat(CHUNK_DIMENSIONS_X))),
                   Floor(FloatDiv(ToFloat(flooredPosition[2]), ToFloat(CHUNK_DIMENSIONS_Y)))>>
         IN IF chunkCoords \in DOMAIN active THEN active[chunkCoords] ELSE NULL

\* IntVector3(chunk->GetOriginWorldPosition())
GetOriginWorldPosition(h, chunk) ==
    <<CHUNK_DIMENSIONS_X * h[chunk].coords[1], CHUNK_DIMENSIONS_Y * h[chunk].coords[2], 0>>

GetBlockLocatorForFlooredPosition(h, active, flooredPosition) ==
    LET chunk == GetChunkThatContainsFlooredPosition(active, flooredPosition) IN
    IF chunk = NULL
    THEN BlockLocator(NULL, 0)
    ELSE LET chunkOffset == GetOriginWorldPosition(h, chunk) IN
         BlockLocatorAt(chunk, flooredPosition[1] - chunkOffset[1],
                               flooredPosition[2] - chunkOffset[2],
                               flooredPosition[3] - chunkOffset[3])

\* the locator of the block that holds a position; none above or below the
\* world or where no chunk is active
GetBlockLocatorThatContainsWorldPosition(h, active, position) ==
    IF position[3] < 0 \/ position[3] >= ToFloat(CHUNK_DIMENSIONS_Z)
    THEN BlockLocator(NULL, 0)
    ELSE GetBlockLocatorForFlooredPosition(h, active, FloorPositionToIntegerCoords(position))

\* RaycastResult_t; the fields the world reads back
RaycastResult(impactFraction, impactDistance, impactBlock, impactNormal) ==
    [m_impactFraction |-> impactFraction, m_impactDistance |-> impactDistance,
     m_impactBlock |-> impactBlock, m_impactNormal |-> impactNormal]

DidImpact(result) == result.m_impactFraction < FLOAT_ONE

\* the result returned when the block stepped into is solid
ImpactResult(maxDistance, distanceTravelled, stepLocator, normal) ==
    RaycastResult(FloatDiv(distanceTravelled, maxDistance), distanceTravelled,
                  stepLocator, normal)

\* the result with its fraction left as RaycastResult_t declares it
NoHitResultFractionUnset(h, active, start, directionNormal, maxDistance) ==
    RaycastResult(0, maxDistance,
                  GetBlockLocatorThatContainsWorldPosition(
                      h, active, PointAlong(start, directionNormal, maxDistance)),
                  <<-directionNormal[1], -directionNormal[2], -directionNormal[3]>>)

\* the result returned after the last step
NoHitResult(h, active, start, directionNormal, maxDistance) ==
    RaycastResult(FLOAT_ONE, maxDistance,
                  GetBlockLocatorThatContainsWorldPosition(
                      h, active, PointAlong(start, directionNormal, maxDistance)),
                  <<-directionNormal[1], -directionNormal[2], -directionNormal[3]>>)

\* is the block a step came into solid
StepIsSolid(w, active, flooredPosition) ==
    IsSolid(GetBlock(w, GetBlockLocatorForFlooredPosition(w.heap, active, flooredPosition)))

\* the loop between two steps: still running in the block of
\* lastPositionFloored, or left with a return
Stepping(lastPositionFloored) ==
    [returned |-> FALSE, lastPositionFloored |-> lastPositionFloored,
     result |-> RaycastResult(0, 0, BlockLocator(NULL, 0), <<0, 0, 0>>)]

Returned(result) ==
    [returned |-> TRUE, lastPositionFloored |-> <<0, 0, 0>>, result |-> result]

\* the impact normal of a step along each axis
XStepNormal(flooredDiff) == <<-flooredDiff[1], 0, 0>>
YStepNormal(flooredDiff) == <<0, -flooredDiff[2], 0>>

\* the step's direction, not negated
ZStepNormalNotNegated(flooredDiff) == <<0, 0, flooredDiff[3]>>

ZStepNormal(flooredDiff) == <<0, 0, -flooredDiff[3]>>

\* one round of the loop that takes the whole step at once and looks only
\* at the block of the sample
RaycastStepAllAxesAtOnce(w, active, start, directionNormal, maxDistance, stepIndex, lastPositionFloored) ==
    LET stepSize == FloatDiv(FLOAT_ONE, ToFloat(RAYCAST_STEPS_PER_BLOCK))
        distanceTravelled == FloatMul(stepSize, ToFloat(stepIndex))
        currPositionFloored ==
            FloorPositionToIntegerCoords(PointAlong(start, directionNormal, distanceTravelled))
    IN IF lastPositionFloored = currPositionFloored
       THEN Stepping(lastPositionFloored)
       ELSE LET flooredDiff ==
                    <<currPositionFloored[1] - lastPositionFloored[1],
                      currPositionFloored[2] - lastPositionFloored[2],
                      currPositionFloored[3] - lastPositionFloored[3]>>
            IN IF StepIsSolid(w, active, currPositionFloored)
               THEN Returned(ImpactResult(maxDistance, distanceTravelled,
                        GetBlockLocatorForFlooredPosition(w.heap, active, currPositionFloored),
                        IF flooredDiff[3] # 0 THEN ZStepNormal(flooredDiff)
                        ELSE IF flooredDiff[2] # 0 THEN YStepNormal(flooredDiff)
                        ELSE XStepNormal(flooredDiff)))
               ELSE Stepping(currPositionFloored)

\* one round of the loop: nothing while the ray stays in its block; in a new
\* block a step east/west first, then north/south, then up/down, each
\* looking at the block it comes into
RaycastStep(w, active, start, directionNormal, maxDistance, stepIndex, lastPositionFloored) ==
    LET stepSize == FloatDiv(FLOAT_ONE, ToFloat(RAYCAST_STEPS_PER_BLOCK))
        distanceTravelled == FloatMul(stepSize, ToFloat(stepIndex))
        currPositionFloored ==
            FloorPositionToIntegerCoords(PointAlong(start, directionNormal, distanceTravelled))
    IN IF lastPositionFloored = currPositionFloored
       THEN Stepping(lastPositionFloored)
       ELSE LET flooredDiff ==
                    <<currPositionFloored[1] - lastPositionFloored[1],
                      currPositionFloored[2] - lastPositionFloored[2],
                      currPositionFloored[3] - lastPositionFloored[3]>>
                afterX == <<lastPositionFloored[1] + flooredDiff[1],
                            lastPositionFloored[2], lastPositionFloored[3]>>
                afterY == <<afterX[1], afterX[2] + flooredDiff[2], afterX[3]>>
                afterZ == <<afterY[1], afterY[2], afterY[3] + flooredDiff[3]>>
            IN IF flooredDiff[1] # 0 /\ StepIsSolid(w, active, afterX)
               THEN Returned(ImpactResult(maxDistance, distanceTravelled,
                        GetBlockLocatorForFlooredPosition(w.heap, active, afterX),
                        XStepNormal(flooredDiff)))
               ELSE IF flooredDiff[2] # 0 /\ StepIsSolid(w, active, afterY)
               THEN Returned(ImpactResult(maxDistance, distanceTravelled,
                        GetBlockLocatorForFlooredPosition(w.heap, active, afterY),
                        YStepNormal(flooredDiff)))
               ELSE IF flooredDiff[3] # 0 /\ StepIsSolid(w, active, afterZ)
               THEN Returned(ImpactResult(maxDistance, distanceTravelled,
                        GetBlockLocatorForFlooredPosition(w.heap, active, afterZ),
                        ZStepNormal(flooredDiff)))
               ELSE Stepping(currPositionFloored)

\* the rounds stepIndex, ..., endIndex - 1 of the loop, in that order, up to
\* the first that returns (the range is halved so that the evaluation stays
\* shallow)
RECURSIVE RaycastSteps(_, _, _, _, _, _, _, _)
RaycastSteps(w, active, start, directionNormal, maxDistance, stepIndex, endIndex, lastPositionFloored) ==
    IF stepIndex >= endIndex THEN Stepping(lastPositionFloored)
    ELSE IF endIndex = stepIndex + 1
         THEN RaycastStep(w, active, start, directionNormal, maxDistance, stepIndex,
                          lastPositionFloored)
    ELSE LET middle == (stepIndex + endIndex) \div 2 IN
         Then(RaycastSteps(w, active, start, directionNormal, maxDistance, stepIndex,
                           middle, lastPositionFloored),
              LAMBDA half :
                  IF half.returned THEN half
                  ELSE RaycastSteps(w, active, start, directionNormal, maxDistance,
                                    middle, endIndex, half.lastPositionFloored))

Raycast(w, active, start, directionNormal, maxDistance) ==
    LET totalSteps == ToInt(FloatMul(maxDistance, ToFloat(RAYCAST_STEPS_PER_BLOCK))) IN
    Then(RaycastSteps(w, active, start, directionNormal, maxDistance, 0, totalSteps,
                      FloorPositionToIntegerCoords(start)),
         LAMBDA loop :
             IF loop.returned THEN loop.result
             ELSE NoHitResult(w.heap, active, start, directionNormal, maxDistance))

-----------------------------------------------------------------------------
(* The world with the ray cast where a tick ends: UpdateRaycast is the last *)
(* call of World::Update.  The ray's start and direction are the detached   *)
(* reference (m_raycastReferencePosition, m_raycastForward) or the camera's; *)
(* the distance is the default one or that of another caller of Raycast.    *)

\* n hundredths as a float
Hundredths(n) == (n * FLOAT_ONE) \div 100

Vector3(x, y, z) == <<Hundredths(x), Hundredths(y), Hundredths(z)>>

\* rays as <<start, directionNormal, maxDistance>>: from the air of the cave
\* of chunk (0, 0) along each axis, slanted through a block's corner, from
\* above the world straight down, and into chunk (0, 0) from its south and
\* from beyond its west neighbour
Rays ==
    {<<Vector3(150, 50, 250), Vector3(-100, 0, 0), DEFAULT_RAYCAST_DISTANCE>>,
     <<Vector3(150, 50, 250), Vector3(100, 0, 0), Hundredths(300)>>,
     <<Vector3(150, 50, 250), Vector3(0, 100, 0), Hundredths(80)>>,
     <<Vector3(150, 50, 250), Vector3(0, 0, 100), Hundredths(51)>>,
     <<Vector3(150, 50, 250), Vector3(0, 0, -100), Hundredths(51)>>,
     <<Vector3(150, 50, 250), Vector3(0, 0, -100), Hundredths(50)>>,
     <<Vector3(103, 104, 250), Vector3(-60, -80, 0), Hundredths(100)>>,
     <<Vector3(197, 96, 250), Vector3(60, 80, 0), Hundredths(200)>>,
     <<Vector3(50, 150, 550), Vector3(0, 0, -100), Hundredths(200)>>,
     <<Vector3(50, 150, 550), Vector3(0, 0, -100), Hundredths(100)>>,
     <<Vector3(50, -50, 250), Vector3(0, 100, 0), Hundredths(100)>>,
     <<Vector3(-250, 50, 350), Vector3(100, 0, 0), Hundredths(300)>>,
     <<Vector3(150, 50, 250), Vector3(0, 0, -100), 0>>}

RayNoted(op, start, directionNormal, maxDistance, result) ==
    [op |-> op, start |-> start, direction |-> directionNormal,
     maxDistance |-> maxDistance, result |-> result]

\* the map's entries that point at freed chunks
FreedChunksInMap(h, active) == {k \in DOMAIN active : ~IsLive(h, active[k])}

\* the heap as a ray reads it: freed memory holds whatever was left there
HeapAsRead(h, garbageType) ==
    [a \in Addrs |->
        IF h[a].live THEN h[a]
        ELSE [NewChunk(<<0, 0>>) EXCEPT
                 !.blocks = [i \in BlockIndices |-> [NewBlock EXCEPT !.type = garbageType]]]]

\* World::UpdateRaycast.  A ray read through a freed chunk faults or goes on
\* with what the memory holds.
UpdateRaycast ==
    /\ pc = "input"
    /\ last.op = "endOfUpdate"
    /\ \E ray \in Rays, survives \in BOOLEAN,
          garbageType \in {AIR_TYPE_INDEX, STONE_TYPE_INDEX} :
          /\ IF FreedChunksInMap(heap, m_activeChunks) = {}
             THEN survives /\ garbageType = AIR_TYPE_INDEX
             ELSE TRUE
          /\ IF survives
             THEN /\ pc' = "input"
                  /\ last' = RayNoted("raycast", ray[1], ray[2], ray[3],
                                 Raycast(World(HeapAsRead(heap, garbageType),
                                               m_dirtyLightingBlocks, MISSING_BLOCK),
                                         m_activeChunks, ray[1], ray[2], ray[3]))
             ELSE /\ pc' = "crashed"
                  /\ last' = RayNoted("faultRaycast", ray[1], ray[2], ray[3],
                                 RaycastResult(0, 0, BlockLocator(NULL, 0), <<0, 0, 0>>))
    /\ UNCHANGED <<config, camera, heap, m_activeChunks, m_dirtyLightingBlocks,
                   MISSING_BLOCK, disk, edits>>

InitRay ==
    /\ pc = "input"
    /\ config \in {[activation_range |-> 1, deactivation_offset |-> 1]}
    /\ camera = <<1, 1>>
    /\ heap = [a \in 1 .. NumAddrs |-> FreedChunk]
    /\ m_activeChunks = EmptyMap
    /\ m_dirtyLightingBlocks = <<>>
    /\ MISSING_BLOCK = NewBlock
    /\ disk = MapPut(EmptyMap, <<0, 0>>, WriteToFile(CaveTypes, ChunkGeometry))
    /\ edits = 0
    /\ last = Noted("init", <<0, 0>>, 0, NULL)

NextRay ==
    \/ ProcessInput
    \/ CheckToActivateChunks
    \/ CheckToDeactivateChunks
    \/ DeactivateChunk
    \/ RelaxFront
    \/ RelaxMissing
    \/ RelaxDangling
    \/ FinishUpdate
    \/ UpdateRaycast

SpecRay == InitRay /\ [][NextRay]_vars

-----------------------------------------------------------------------------
(* The world walked through in long strides, with a wide band between the   *)
(* activation and the deactivation range: chunks are left behind two at a   *)
(* time.                                                                    *)

InitFar ==
    /\ pc = "input"
    /\ config = WideBandConfig
    /\ camera = <<1, 1>>
    /\ heap = [a \in 1 .. NumAddrs |-> FreedChunk]
    /\ m_activeChunks = EmptyMap
    /\ m_dirtyLightingBlocks = <<>>
    /\ MISSING_BLOCK = NewBlock
    /\ disk \in InitialDisks
    /\ edits = 0
    /\ last = Noted("init", <<0, 0>>, 0, NULL)

SpecFar == InitFar /\ [][Next]_vars

-----------------------------------------------------------------------------
(* The lamp: Saves/ holds a chunk (0, 0) that is a stone floor, a Glowstone *)
(* block on the floor and air everywhere else.                              *)

LampCoords == <<0, 0, 1>>
LampIndex == GetBlockIndexFromBlockCoords(LampCoords[1], LampCoords[2], LampCoords[3])

LampTypes == [i \in BlockIndices |->
                 IF ZBits(i) = 0 THEN STONE_TYPE_INDEX
                 ELSE IF i = LampIndex THEN GLOWSTONE_TYPE_INDEX ELSE AIR_TYPE_INDEX]

InitLamp ==
    /\ pc = "input"
    /\ config \in Configs
    /\ camera = <<1, 1>>
    /\ heap = [a \in 1 .. NumAddrs |-> FreedChunk]
    /\ m_activeChunks = EmptyMap
    /\ m_dirtyLightingBlocks = <<>>
    /\ MISSING_BLOCK = NewBlock
    /\ disk = MapPut(EmptyMap, <<0, 0>>, WriteToFile(LampTypes, ChunkGeometry))
    /\ edits = 0
    /\ last = Noted("init", <<0, 0>>, 0, NULL)

SpecLamp == InitLamp /\ [][Next]_vars

-----------------------------------------------------------------------------
(* The cross: a run with room for a chunk and its four neighbours.  The     *)
(* camera stands in the middle of chunk (0, 0) or of chunk (1, 0).          *)

NumCrossAddrs == 8

InitCross ==
    /\ pc = "input"
    /\ config = CrossConfig
    /\ camera = <<1, 1>>
    /\ heap = [a \in 1 .. NumCrossAddrs |-> FreedChunk]
    /\ m_activeChunks = EmptyMap
    /\ m_dirtyLightingBlocks = <<>>
    /\ MISSING_BLOCK = NewBlock
    /\ disk = EmptyMap
    /\ edits = 0
    /\ last = Noted("init", <<0, 0>>, 0, NULL)

SpecCross == InitCross /\ [][Next]_vars

-----------------------------------------------------------------------------
(* Chunk::UpdateSkyFlagsForBlock on a chunk of its own: the type of one      *)
(* block of a column changes, as Chunk::SetBlockTypeAtBlockIndex changes it, *)
(* then the sky flags of the column are updated for that block.              *)

\* the walks down of UpdateSkyFlagsForBlock: from indexBelowMe the flag is
\* written on every block that is not fully opaque, up to the first that is
RECURSIVE SetSkyBelow(_, _, _)
SetSkyBelow(blocks, indexBelowMe, isSky) ==
    IF indexBelowMe < 0 THEN blocks
    ELSE IF ~IsFullyOpaque(blocks[indexBelowMe])
         THEN SetSkyBelow([blocks EXCEPT ![indexBelowMe].sky = isSky],
                          indexBelowMe - BLOCKS_PER_Z_LAYER, isSky)
         ELSE blocks

UpdateSkyFlagsForBlock(blocks, blockIndex) ==
    IF IsFullyOpaque(blocks[blockIndex])
    THEN LET wasPreviouslySky == blocks[blockIndex].sky
             cleared == [blocks EXCEPT ![blockIndex].sky = FALSE]
         IN IF wasPreviouslySky
            THEN SetSkyBelow(cleared, blockIndex - BLOCKS_PER_Z_LAYER, FALSE)
            ELSE cleared
    ELSE LET indexAboveMe == blockIndex + BLOCKS_PER_Z_LAYER IN
         IF indexAboveMe < BLOCKS_PER_CHUNK
         THEN IF blocks[indexAboveMe].sky
              THEN SetSkyBelow([blocks EXCEPT ![blockIndex].sky = TRUE],
                               blockIndex - BLOCKS_PER_Z_LAYER, TRUE)
              ELSE blocks
         ELSE blocks

\* the types the blocks of a column are drawn from: not opaque, fully opaque,
\* and not opaque but not air
SkyColumnTypes == {AIR_TYPE_INDEX, STONE_TYPE_INDEX, WATER_TYPE_INDEX}

\* the block indices above a block in its column
IndicesAbove(blockIndex) ==
    {i \in BlockIndices : i > blockIndex /\ (i - blockIndex) % BLOCKS_PER_Z_LAYER = 0}

\* the sky flag a block has when the flags of its column are correct
IsSkyByColumn(blocks, blockIndex) ==
    /\ ~IsFullyOpaque(blocks[blockIndex])
    /\ \A above \in IndicesAbove(blockIndex) : ~IsFullyOpaque(blocks[above])

\* blocks of the given types with correct sky flags
BlocksWithSkyFlags(types) ==
    LET typed == [i \in BlockIndices |-> [NewBlock EXCEPT !.type = types[i]]]
    IN [i \in BlockIndices |-> [typed[i] EXCEPT !.sky = IsSkyByColumn(typed, i)]]

\* a chunk whose column holds any types, the other columns air, every sky
\* flag correct
InitSky ==
    /\ pc = "skyChange"
    /\ config \in {[activation_range |-> 2, deactivation_offset |-> 0]}
    /\ camera = <<1, 1>>
    /\ \E column \in 0 .. (BLOCKS_PER_Z_LAYER - 1) :
          \E columnTypes \in [0 .. (CHUNK_DIMENSIONS_Z - 1) -> SkyColumnTypes] :
             /\ heap = [a \in 1 .. NumAddrs |->
                           IF a = 1
                           THEN [NewChunk(<<0, 0>>) EXCEPT
                                    !.blocks = BlocksWithSkyFlags(
                                        [i \in BlockIndices |->
                                            IF i % BLOCKS_PER_Z_LAYER = column
                                            THEN columnTypes[ZBits(i)]
                                            ELSE AIR_TYPE_INDEX])]
                           ELSE FreedChunk]
             /\ last = Noted("init", <<0, 0>>, column, 1)
    /\ m_activeChunks = EmptyMap
    /\ m_dirtyLightingBlocks = <<>>
    /\ MISSING_BLOCK = NewBlock
    /\ disk = EmptyMap
    /\ edits = 0

\* Chunk::SetBlockTypeAtBlockIndex: a block of the column gets another type
ChangeTypeInColumn ==
    /\ pc = "skyChange"
    /\ \E z \in 0 .. (CHUNK_DIMENSIONS_Z - 1), type \in SkyColumnTypes :
          LET blockIndex == last.d2 + z * BLOCKS_PER_Z_LAYER IN
          /\ heap[last.chunk].blocks[blockIndex].type # type
          /\ heap' = [heap EXCEPT ![last.chunk].blocks =
                         SetBlockTypeAtBlockIndex(heap[last.chunk].blocks, blockIndex, type)]
          /\ last' = Noted("changeType", <<0, 0>>, blockIndex, last.chunk)
    /\ pc' = "skyUpdate"
    /\ UNCHANGED <<config, camera, m_activeChunks, m_dirtyLightingBlocks, MISSING_BLOCK,
                   disk, edits>>

\* Chunk::UpdateSkyFlagsForBlock on the block that changed
UpdateSkyFlags ==
    /\ pc = "skyUpdate"
    /\ heap' = [heap EXCEPT ![last.chunk].blocks =
                   UpdateSkyFlagsForBlock(heap[last.chunk].blocks, last.d2)]
    /\ last' = Noted("updateSky", <<0, 0>>, last.d2, last.chunk)
    /\ pc' = "skyDone"
    /\ UNCHANGED <<config, camera, m_activeChunks, m_dirtyLightingBlocks, MISSING_BLOCK,
                   disk, edits>>

NextSky ==
    \/ ChangeTypeInColumn
    \/ UpdateSkyFlags

SpecSky == InitSky /\ [][NextSky]_vars

-----------------------------------------------------------------------------
(* The game loop runs frame after frame: ProcessInput, then World::Update,   *)
(* for as long as the program is alive.                                      *)

InitStream ==
    /\ pc = "input"
    /\ config \in StreamConfigs
    /\ camera = <<1, 1>>
    /\ heap = [a \in 1 .. NumAddrs |-> FreedChunk]
    /\ m_activeChunks = EmptyMap
    /\ m_dirtyLightingBlocks = <<>>
    /\ MISSING_BLOCK = NewBlock
    /\ disk \in InitialDisks
    /\ edits = 0
    /\ last = Noted("init", <<0, 0>>, 0, NULL)

SpecStream == InitStream /\ [][Next]_vars /\ WF_vars(Next)

-----------------------------------------------------------------------------
(* Properties *)

ActiveCoords == DOMAIN m_activeChunks

\* the chunk the map holds at chunkCoords, or NULL
ActiveChunkAt(chunkCoords) ==
    IF chunkCoords \in ActiveCoords THEN m_activeChunks[chunkCoords] ELSE NULL

\* the locators of all blocks of all active chunks
ActiveBlockLocators ==
    {BlockLocator(m_activeChunks[k], i) : k \in ActiveCoords, i \in BlockIndices}

\* the world as the handlers see it in the current state
CurrentWorld == World(heap, m_dirtyLightingBlocks, MISSING_BLOCK)

\* UpdateLighting has returned and the frame is over
LightingDrained == pc = "input"

ActivationRangeSquared == config.activation_range * config.activation_range

DeactivationRangeSquared ==
    (config.activation_range + config.deactivation_offset)
    * (config.activation_range + config.deactivation_offset)

\* C1: in every state the map holds one live chunk per active coordinate and
\* no live chunk is outside it but the one DeactivateChunk is about to delete; each active chunk's east, west, north and
\* south pointer is the active chunk at the adjacent coordinate, or null when
\* that coordinate is not active; A.east = B exactly when B.west = A, and
\* A.north = B exactly when B.south = A.
C1_NeighborLinksAgreeWithMap ==
    /\ \A k \in ActiveCoords :
          /\ IsLive(heap, m_activeChunks[k])
          /\ heap[m_activeChunks[k]].coords = k
          /\ heap[m_activeChunks[k]].east = ActiveChunkAt(EastCoords(k))
          /\ heap[m_activeChunks[k]].west = ActiveChunkAt(WestCoords(k))
          /\ heap[m_activeChunks[k]].north = ActiveChunkAt(NorthCoords(k))
          /\ heap[m_activeChunks[k]].south = ActiveChunkAt(SouthCoords(k))
    /\ \A a \in Addrs :
          (heap[a].live /\ ~(pc = "deactivateChunk" /\ a = ChunkToDeactivate)) =>
              ActiveChunkAt(heap[a].coords) = a
    /\ \A a \in Addrs, b \in Addrs :
          (heap[a].live /\ heap[b].live) =>
              /\ (heap[a].east = b) <=> (heap[b].west = a)
              /\ (heap[a].north = b) <=> (heap[b].south = a)

\* C1 witness: a chunk has just been deactivated while two chunks that are
\* east and west of each other stay active
C1_Witness ==
    /\ last.op = "deactivate"
    /\ \E k \in ActiveCoords : EastCoords(k) \in ActiveCoords

\* two locators name the same block: the same chunk and index, or both the
\* sentinel
SameBlock(a, b) == (a.chunk = NULL /\ b.chunk = NULL) \/ a = b

IsInDirtyLightingList(loc) ==
    \E j \in 1 .. Len(m_dirtyLightingBlocks) : m_dirtyLightingBlocks[j] = loc

\* C2: in every state no block is in the dirty lighting queue twice, the
\* sentinel's isInDirtyLightingList flag is set exactly when a locator with a
\* null chunk is queued, and the flag of every block of every live chunk is
\* set exactly when the block's locator is queued.
C2_QueueMatchesFlags ==
    /\ \A i \in 1 .. Len(m_dirtyLightingBlocks), j \in 1 .. Len(m_dirtyLightingBlocks) :
          i # j => ~SameBlock(m_dirtyLightingBlocks[i], m_dirtyLightingBlocks[j])
    /\ MISSING_BLOCK.dirty <=>
          \E j \in 1 .. Len(m_dirtyLightingBlocks) : m_dirtyLightingBlocks[j].chunk = NULL
    /\ \A a \in Addrs :
          heap[a].live =>
              \A i \in DOMAIN heap[a].blocks :
                  heap[a].blocks[i].dirty <=> IsInDirtyLightingList(BlockLocator(a, i))

\* C3: a step never adds to the active map a coordinate whose squared distance
\* from the camera is greater than activation_range squared.
C3_NoActivationBeyondRange ==
    [][\A k \in (DOMAIN m_activeChunks') \ (DOMAIN m_activeChunks) :
           DistanceSquared(k, camera') <= config.activation_range * config.activation_range]_vars

\* C3 witness: CheckToActivateChunks has activated a chunk away from the
\* camera while a coordinate next to the camera's chunk, inactive and beyond
\* the range, stays inactive
C3_Witness ==
    /\ last.op = "activate"
    /\ last.d2 > 0
    /\ \E k \in {EastCoords(GetChunkCoordsForChunkThatContainsPosition(camera)),
                 WestCoords(GetChunkCoordsForChunkThatContainsPosition(camera)),
                 NorthCoords(GetChunkCoordsForChunkThatContainsPosition(camera)),
                 SouthCoords(GetChunkCoordsForChunkThatContainsPosition(camera))} :
          /\ k \notin ActiveCoords
          /\ DistanceSquared(k, camera) > ActivationRangeSquared

\* C4: the step of CheckToDeactivateChunks removes from the active map only
\* coordinates whose squared distance from the camera is greater than
\* (activation_range + deactivation_offset) squared.
C4_NoDeactivationWithinRange ==
    [][pc = "deactivate" =>
           \A k \in (DOMAIN m_activeChunks) \ (DOMAIN m_activeChunks') :
               DistanceSquared(k, camera) >
                   (config.activation_range + config.deactivation_offset)
                   * (config.activation_range + config.deactivation_offset)]_vars

\* C4 witness: a chunk has just been deactivated while a chunk exactly at
\* activation_range + deactivation_offset stays active
C4_Witness ==
    /\ last.op = "deactivate"
    /\ \E k \in ActiveCoords : DistanceSquared(k, camera) = DeactivationRangeSquared

\* the six neighbours of a block, as a set of locators
NeighborLocators(loc) ==
    {SixNeighbors(heap, loc)[n] : n \in 1 .. 6}

\* a neighbour's light, a missing neighbour counting as light 0
IndoorLightOrZero(loc) ==
    IF loc.chunk = NULL THEN 0 ELSE heap[loc.chunk].blocks[loc.index].indoor

OutdoorLightOrZero(loc) ==
    IF loc.chunk = NULL THEN 0 ELSE heap[loc.chunk].blocks[loc.index].outdoor

MaxOf(values) == CHOOSE m \in values : \A v \in values : m >= v

\* C5: at the end of every frame, UpdateLighting having drained the queue,
\* every block of every active chunk has indoor light equal to the larger of
\* its type's emission and the largest indoor light among its six neighbours
\* minus one, a missing neighbour counting as 0.
C5_IndoorLightConverged ==
    LightingDrained =>
        \A loc \in ActiveBlockLocators :
            GetBlock(CurrentWorld, loc).indoor =
                Max2(TypeInternalLightLevel(GetBlock(CurrentWorld, loc).type),
                     MaxOf({IndoorLightOrZero(n) : n \in NeighborLocators(loc)}) - 1)

\* C6: at the end of every frame, UpdateLighting having drained the queue,
\* every block of every active chunk has outdoor light 15 if it is flagged
\* sky, else the largest outdoor light among its six neighbours minus one
\* clamped to 0..15 if it is not opaque, else 0.
C6_OutdoorLightConverged ==
    LightingDrained =>
        \A loc \in ActiveBlockLocators :
            GetBlock(CurrentWorld, loc).outdoor =
                IF GetBlock(CurrentWorld, loc).sky THEN BLOCK_MAX_LIGHTING
                ELSE IF ~IsFullyOpaque(GetBlock(CurrentWorld, loc))
                     THEN ClampInt(MaxOf({OutdoorLightOrZero(n) :
                                             n \in NeighborLocators(loc)}) - 1,
                                   0, BLOCK_MAX_LIGHTING)
                     ELSE 0

\* C7: at the end of every frame, UpdateLighting having drained the queue,
\* RecalculateLightingForBlock on any block of any active chunk leaves the
\* world as it is: no light value changes and no block is queued.
C7_RelaxationFixedPoint ==
    LightingDrained =>
        \A loc \in ActiveBlockLocators :
            RecalculateLightingForBlock(CurrentWorld, loc) = CurrentWorld

\* UpdateLighting has been cut short by a fault in one of its rounds
LightingFaulted == pc = "crashed" /\ last.op \in {"faultMissing", "faultDangling"}

\* C8: UpdateLighting runs until the queue is empty: no round of it faults,
\* and the queue is empty whenever a frame has ended.
C8_UpdateLightingDrains ==
    /\ ~LightingFaulted
    /\ LightingDrained => m_dirtyLightingBlocks = <<>>

\* the file written for the chunk, and its (type, runLength) pairs
WrittenFile == FileOf(disk, FileChunkCoords)
RunsInFile == (Len(WrittenFile) - SIZEOF_HEADER) \div 2
RunType(r) == WrittenFile[SIZEOF_HEADER + 2 * r - 1]
RunLength(r) == WrittenFile[SIZEOF_HEADER + 2 * r]

RECURSIVE SumOfRunLengths(_)
SumOfRunLengths(r) == IF r = 0 THEN 0 ELSE RunLength(r) + SumOfRunLengths(r - 1)

\* C9: a chunk written with WriteToFile and read back into a fresh chunk with
\* InitializeFromFile: the read succeeds and the fresh chunk has the written
\* chunk's block type at every block index.
C9_RoundTrip ==
    pc = "fileDone" =>
        /\ last.op = "loaded"
        /\ TypesOf(heap[ReadChunk].blocks) = TypesOf(heap[WrittenChunk].blocks)

\* C9 witness: a round trip is over for a chunk in which one block type ran
\* on past the limit, so that its run was split at 255
C9_Witness ==
    /\ pc = "fileDone"
    /\ \E r \in 1 .. (RunsInFile - 1) :
          RunLength(r) = RLE_LIMIT /\ RunType(r) = RunType(r + 1)

\* C10: the run lengths of the pairs of every file WriteToFile has written
\* sum to the number of blocks of a chunk.
C10_RunLengthsSumToBlocks ==
    pc \in {"fileLoad", "fileDone"} =>
        SumOfRunLengths(RunsInFile) = BlocksOfGeometry(FileGeometry)

\* C10 witness: a file has been written that holds two runs of the full
\* length 255 and a run of another length
C10_Witness ==
    /\ pc = "fileLoad"
    /\ \E r \in 1 .. RunsInFile, q \in 1 .. RunsInFile, o \in 1 .. RunsInFile :
          r # q /\ RunLength(r) = RLE_LIMIT /\ RunLength(q) = RLE_LIMIT
                /\ RunLength(o) # RLE_LIMIT

\* C11: in every file WriteToFile has written each run-length byte is between
\* 1 and 255 (none is zero, none has wrapped), and two adjacent pairs have the
\* same type only where a longer run was split, the first of them being full.
C11_RunLengthBytesInRange ==
    pc \in {"fileLoad", "fileDone"} =>
        /\ \A r \in 1 .. RunsInFile : RunLength(r) >= 1 /\ RunLength(r) <= RLE_LIMIT
        /\ \A r \in 1 .. (RunsInFile - 1) :
               RunType(r) = RunType(r + 1) => RunLength(r) = RLE_LIMIT

\* C11 witness: a file has been written for a run of exactly 256 blocks, split
\* into a pair of length 255 and a pair of length 1 of the same type
C11_Witness ==
    /\ pc = "fileLoad"
    /\ \E r \in 1 .. (RunsInFile - 1) :
          /\ RunLength(r) = RLE_LIMIT
          /\ RunType(r + 1) = RunType(r)
          /\ RunLength(r + 1) = 1

\* the file read by LoadFoundFile
FoundFile == FileOf(disk, FileChunkCoords)

\* the sum of the length bytes of the (type, runLength) pairs the file holds
RECURSIVE RunLengthTotal(_, _)
RunLengthTotal(file, byteIndex) ==
    IF byteIndex + 1 >= Len(file) THEN 0
    ELSE ByteAt(file, byteIndex + 1) + RunLengthTotal(file, byteIndex + 2)

\* the defects of a file that holds a whole header: wrong magic, wrong
\* version, a bit width other than the compiled one, a format tag other than
\* 'R', or run lengths that do not sum to the chunk's block count
FileHasListedDefect(file, g) ==
    /\ Len(file) >= SIZEOF_HEADER
    /\ \/ <<file[1], file[2], file[3], file[4]>> # <<Char_S, Char_M, Char_C, Char_D>>
       \/ file[5] # CHUNK_VERSION
       \/ file[6] # g.bx
       \/ file[7] # g.by
       \/ file[8] # g.bz
       \/ file[12] # Char_R
       \/ RunLengthTotal(file, SIZEOF_HEADER) # BlocksOfGeometry(g)

\* C12: InitializeFromFile on a file with a wrong magic, version, bit width or
\* format tag, or with a run-length total other than the block count, returns
\* failure, and the chunk's blocks are then as they were before the call.
C12_InvalidFileIsRejected ==
    FileHasListedDefect(FoundFile, ChunkGeometry) =>
        \/ pc = "loadFound"
        \/ /\ pc = "loadDone"
           /\ last.op = "loadFailed"
           /\ heap[ReadChunk].blocks = NewChunk(FileChunkCoords).blocks

\* C14: InitializeFromFile, on a file of any length and content, reads only
\* offsets below the file's size, writes only block indices below the block
\* count, and does not fault.
C14_LoadStaysInsideFile ==
    pc \in {"loadDone", "crashed"} =>
        /\ last.op # "faultRead"
        /\ \A offset \in last.read : offset < Len(FoundFile)
        /\ \A blockIndex \in last.written : blockIndex < BLOCKS_PER_CHUNK

\* the file passes for a saved chunk: a whole header, whole pairs, no defect
FileIsValid(file, g) ==
    IF file = NoFile THEN FALSE
    ELSE /\ Len(file) >= SIZEOF_HEADER
         /\ (Len(file) - SIZEOF_HEADER) % 2 = 0
         /\ ~FileHasListedDefect(file, g)

\* the block types procedural generation gives the chunk at chunkCoords
GeneratedTypes(chunkCoords) ==
    TypesOf(GenerateWithPerlinNoise(NewChunk(chunkCoords).blocks, chunkCoords, BASE_ELEVATION,
                                    NOISE_MAX_DEVIATION_FROM_BASE_ELEVATION, SEA_LEVEL))

\* the block types a valid file holds
TypesInFile(file) ==
    TypesOf(LoadRuns(NewChunk(<<0, 0>>).blocks, file, Len(file), SIZEOF_HEADER, 0))

\* the file has a whole header and whole pairs
FileIsWhole(file) ==
    Len(file) >= SIZEOF_HEADER /\ (Len(file) - SIZEOF_HEADER) % 2 = 0

\* the block types InitializeFromFile can leave in a fresh chunk when it
\* accepts the file, over the bytes a read past the file's end can give
TypesAcceptedFrom(file) ==
    {TypesOf(InitializeFromFile(NewChunk(<<0, 0>>).blocks, file, beyond,
                                ChunkGeometry).blocks) :
        beyond \in {b \in BeyondBytes :
                       InitializeFromFile(NewChunk(<<0, 0>>).blocks, file, b,
                                          ChunkGeometry).ok}}

HorizontalStepFaults(loc) == StepDerefsNull(loc)

\* C15: for every locator L of a block of an active chunk, ToEast then ToWest,
\* ToWest then ToEast, ToNorth then ToSouth and ToSouth then ToNorth all come
\* back to L, on a chunk face too, whether the adjacent chunk is active or
\* not, and no step goes through a null chunk pointer.
C15_HorizontalRoundTrip ==
    \A loc \in ActiveBlockLocators :
        /\ ~HorizontalStepFaults(ToEast(heap, loc)) /\ ToWest(heap, ToEast(heap, loc)) = loc
        /\ ~HorizontalStepFaults(ToWest(heap, loc)) /\ ToEast(heap, ToWest(heap, loc)) = loc
        /\ ~HorizontalStepFaults(ToNorth(heap, loc)) /\ ToSouth(heap, ToNorth(heap, loc)) = loc
        /\ ~HorizontalStepFaults(ToSouth(heap, loc)) /\ ToNorth(heap, ToSouth(heap, loc)) = loc

\* the Z layer of the block a locator names
LayerOf(loc) == loc.index \div BLOCKS_PER_Z_LAYER

\* C16: for every locator L of a block of an active chunk: ToAbove from the
\* top layer and ToBelow from the bottom layer give a locator with a null
\* chunk; below the top layer ToAbove then ToBelow comes back to L, above the
\* bottom layer ToBelow then ToAbove comes back to L, the step between staying
\* in L's chunk.
C16_VerticalSteps ==
    \A loc \in ActiveBlockLocators :
        /\ LayerOf(loc) = CHUNK_DIMENSIONS_Z - 1 => ToAbove(loc).chunk = NULL
        /\ LayerOf(loc) = 0 => ToBelow(loc).chunk = NULL
        /\ LayerOf(loc) < CHUNK_DIMENSIONS_Z - 1 =>
               /\ ToAbove(loc).chunk = loc.chunk
               /\ LayerOf(ToAbove(loc)) = LayerOf(loc) + 1
               /\ ToBelow(ToAbove(loc)) = loc
        /\ LayerOf(loc) > 0 =>
               /\ ToBelow(loc).chunk = loc.chunk
               /\ LayerOf(ToBelow(loc)) = LayerOf(loc) - 1
               /\ ToAbove(ToBelow(loc)) = loc

\* C16 witness: two chunks are active, so that locators of the top, the bottom
\* and the middle layers of more than one chunk are stepped from
C16_Witness ==
    /\ Cardinality(ActiveCoords) >= 2
    /\ \E loc \in ActiveBlockLocators : LayerOf(loc) = CHUNK_DIMENSIONS_Z - 1
    /\ \E loc \in ActiveBlockLocators : LayerOf(loc) = 1

\* the locators with a null chunk waiting in the dirty lighting queue: the
\* BlockLocator(nullptr, -1) of a step past the top or the bottom layer, and
\* the result of a step across a face with no neighbour
MissingLocators ==
    {m_dirtyLightingBlocks[j] : j \in {i \in 1 .. Len(m_dirtyLightingBlocks) :
                                          m_dirtyLightingBlocks[i].chunk = NULL}}

\* C17: each of the six steps from a locator with a null chunk gives a locator
\* with a null chunk, and none of them calls a neighbour getter on the null
\* chunk pointer; UpdateLighting, which takes all six from every locator it
\* pops, does not fault on a missing one.
C17_MissingLocatorSteps ==
    /\ last.op # "faultMissing"
    /\ \A loc \in MissingLocators :
          /\ ~StepDerefsNull(loc)
          /\ \A n \in 1 .. 6 : SixNeighbors(heap, loc)[n].chunk = NULL

\* C18: in every state the sentinel Block::MISSING_BLOCK is as it was
\* constructed: not solid, not opaque, indoor and outdoor light 0, not sky,
\* and its isInDirtyLightingList flag not set.
C18_MissingBlockUnchanged ==
    /\ ~IsSolid(MISSING_BLOCK)
    /\ ~IsFullyOpaque(MISSING_BLOCK)
    /\ MISSING_BLOCK.indoor = 0
    /\ MISSING_BLOCK.outdoor = 0
    /\ MISSING_BLOCK.sky = FALSE
    /\ MISSING_BLOCK.dirty = FALSE


-----------------------------------------------------------------------------
(* Raycast *)

\* the ray UpdateRaycast cast last, and what it returned
RayWasCast == last.op = "raycast"
RayTotalSteps == (last.maxDistance * RAYCAST_STEPS_PER_BLOCK) \div FLOAT_ONE

\* the block that holds the ray's sample at a step
SampleBlock(stepIndex) ==
    FloorPositionToIntegerCoords(
        PointAlong(last.start, last.direction,
                   stepIndex * (FLOAT_ONE \div RAYCAST_STEPS_PER_BLOCK)))

\* the blocks a step comes into, from the block of the sample before it
BlocksEnteredAt(stepIndex) ==
    LET from == SampleBlock(stepIndex - 1)
        to == SampleBlock(stepIndex)
    IN (IF to[1] # from[1] THEN {<<to[1], from[2], from[3]>>} ELSE {}) \cup
       (IF to[2] # from[2] THEN {<<to[1], to[2], from[3]>>} ELSE {}) \cup
       (IF to[3] # from[3] THEN {to} ELSE {})

\* is a block of the world solid: a block of no active chunk, or below or
\* above the world, is not
SolidAt(position) ==
    /\ position[3] \in 0 .. (CHUNK_DIMENSIONS_Z - 1)
    /\ <<position[1] \div CHUNK_DIMENSIONS_X, position[2] \div CHUNK_DIMENSIONS_Y>>
           \in ActiveCoords
    /\ LET chunk == m_activeChunks[<<position[1] \div CHUNK_DIMENSIONS_X,
                                     position[2] \div CHUNK_DIMENSIONS_Y>>]
       IN TypeIsSolid(heap[chunk].blocks[
              GetBlockIndexFromBlockCoords(position[1] % CHUNK_DIMENSIONS_X,
                                           position[2] % CHUNK_DIMENSIONS_Y,
                                           position[3])].type)

\* is a block of the world one the ray can read: of an active chunk, inside
\* the world's height
InsideActiveWorld(position) ==
    /\ position[3] \in 0 .. (CHUNK_DIMENSIONS_Z - 1)
    /\ <<position[1] \div CHUNK_DIMENSIONS_X, position[2] \div CHUNK_DIMENSIONS_Y>>
           \in ActiveCoords

\* the steps at which the ray comes into a solid block
SolidSteps ==
    {k \in 1 .. (RayTotalSteps - 1) : \E b \in BlocksEnteredAt(k) : SolidAt(b)}

\* the result is the one returned after the loop
ReportsNoHit ==
    /\ last.result.m_impactDistance = last.maxDistance
    /\ last.result.m_impactNormal =
           <<-last.direction[1], -last.direction[2], -last.direction[3]>>

\* C19: Raycast returns impact fraction exactly 1.0, DidImpact() false, when
\* the ray comes into no solid block within maxDistance; a reported hit has
\* an impact fraction below 1.0, DidImpact() true; blocks of inactive chunks
\* and blocks above or below the world count as not solid, and no ray faults.
C19_RaycastFraction ==
    /\ last.op # "faultRaycast"
    /\ RayWasCast =>
          /\ SolidSteps = {} =>
                /\ last.result.m_impactFraction = FLOAT_ONE
                /\ ~DidImpact(last.result)
                /\ ReportsNoHit
          /\ SolidSteps # {} =>
                /\ last.result.m_impactFraction < FLOAT_ONE
                /\ last.result.m_impactFraction >= 0
                /\ DidImpact(last.result)
                /\ last.result.m_impactDistance < last.maxDistance
          /\ ~ReportsNoHit => last.result.m_impactFraction < FLOAT_ONE

\* a ray that left the active chunks or the world's height, came into no
\* solid block and was reported as no hit
C19_Witness ==
    /\ RayWasCast
    /\ \E k \in 1 .. (RayTotalSteps - 1) :
          \E b \in BlocksEnteredAt(k) : ~InsideActiveWorld(b)
    /\ SolidSteps = {}
    /\ last.result.m_impactFraction = FLOAT_ONE


\* the first step at which the ray comes into a solid block
FirstSolidStep == CHOOSE k \in SolidSteps : (k - 1) \notin SolidSteps /\ \A j \in SolidSteps : k <= j

\* the locator of a block of an active chunk
LocatorOf(position) ==
    BlockLocator(m_activeChunks[<<position[1] \div CHUNK_DIMENSIONS_X,
                                  position[2] \div CHUNK_DIMENSIONS_Y>>],
                 GetBlockIndexFromBlockCoords(position[1] % CHUNK_DIMENSIONS_X,
                                              position[2] % CHUNK_DIMENSIONS_Y,
                                              position[3]))

\* is a ray cast straight down
StraightDown(directionNormal) ==
    directionNormal[1] = 0 /\ directionNormal[2] = 0 /\ directionNormal[3] < 0

\* C20: a reported hit names the solid block the ray came into, and its
\* normal is a unit vector along one axis that points back out of that block:
\* against the ray's direction on that axis, towards the block the step left.
\* A ray cast straight down onto a solid block reports normal (0, 0, 1).
C20_HitNormalAndBlock ==
    (RayWasCast /\ DidImpact(last.result)) =>
        /\ SolidSteps # {}
        /\ last.result.m_impactNormal \in ImpactNormals
        /\ \E entered \in BlocksEnteredAt(FirstSolidStep) :
              LET left == <<entered[1] + last.result.m_impactNormal[1],
                            entered[2] + last.result.m_impactNormal[2],
                            entered[3] + last.result.m_impactNormal[3]>>
              IN /\ SolidAt(entered)
                 /\ last.result.m_impactBlock = LocatorOf(entered)
                 /\ IF left = SampleBlock(FirstSolidStep - 1)
                    THEN TRUE
                    ELSE left \in BlocksEnteredAt(FirstSolidStep) /\ ~SolidAt(left)
        /\ \A axis \in 1 .. 3 :
              last.result.m_impactNormal[axis] # 0 =>
                  last.result.m_impactNormal[axis] * last.direction[axis] < 0
        /\ StraightDown(last.direction) => last.result.m_impactNormal = <<0, 0, 1>>
        /\ IsSolid(GetBlock(CurrentWorld, last.result.m_impactBlock))

\* a ray cast straight down from above the world that hit the solid block
\* under it
C20_Witness ==
    /\ RayWasCast
    /\ StraightDown(last.direction)
    /\ DidImpact(last.result)
    /\ last.result.m_impactNormal = <<0, 0, 1>>
    /\ last.start[3] >= ToFloat(CHUNK_DIMENSIONS_Z)
    /\ IsSolid(GetBlock(CurrentWorld, last.result.m_impactBlock))


-----------------------------------------------------------------------------
(* Streaming: one chunk in, one chunk out, one mesh per tick *)

\* the chunk coordinates around the walks of the camera
CoordsAround == {<<x, y>> : x \in -3 .. 6, y \in -3 .. 4}

\* C21: a step adds at most one coordinate to the active map, only
\* CheckToActivateChunks (once in a tick) adds one, and the coordinate added
\* was inactive and no inactive coordinate within activation_range of the
\* camera is closer to the camera than it.
C21_ActivatesClosestInactive ==
    [][LET added == (DOMAIN m_activeChunks') \ (DOMAIN m_activeChunks) IN
       /\ Cardinality(added) <= 1
       /\ added # {} => pc = "activate" /\ pc' = "deactivate"
       /\ \A k \in added :
             \A j \in CoordsAround \ (DOMAIN m_activeChunks) :
                 DistanceSquared(j, camera') <= ActivationRangeSquared =>
                     DistanceSquared(k, camera') <= DistanceSquared(j, camera')]_vars

\* C21 witness: a chunk was activated while a coordinate farther from the
\* camera, also within activation_range, is still inactive
C21_Witness ==
    /\ last.op = "activate"
    /\ \E j \in CoordsAround \ ActiveCoords :
          /\ DistanceSquared(j, camera) <= ActivationRangeSquared
          /\ last.d2 < DistanceSquared(j, camera)

IsUnlinked(chunk) ==
    /\ heap[chunk].east = NULL /\ heap[chunk].west = NULL
    /\ heap[chunk].north = NULL /\ heap[chunk].south = NULL
    /\ \A a \in Addrs :
          heap[a].live =>
              /\ heap[a].east # chunk /\ heap[a].west # chunk
              /\ heap[a].north # chunk /\ heap[a].south # chunk

\* the file WriteToFile writes for a chunk
FileOfChunk(chunk) == WriteToFile(TypesOf(heap[chunk].blocks), ChunkGeometry)

\* C23 as stated: when DeactivateChunk serializes a chunk whose disk-dirty
\* flag is set, the chunk is still in the active map (it is unlinked only
\* after the write) and not yet destroyed; a chunk whose flag is clear is not
\* written.
C23_WrittenBeforeUnlinked ==
    [][pc = "deactivateChunk" =>
           /\ heap[ChunkToDeactivate].live
           /\ IF heap[ChunkToDeactivate].needsSave
              THEN /\ disk' = MapPut(disk, heap[ChunkToDeactivate].coords,
                                     FileOfChunk(ChunkToDeactivate))
                   /\ heap[ChunkToDeactivate].coords \in DOMAIN m_activeChunks
              ELSE disk' = disk]_vars

\* C23, amended: the step that takes a chunk off the active map and unlinks
\* it writes nothing; DeactivateChunk then serializes the chunk, if its
\* disk-dirty flag is set, while it is unlinked, off the map and not yet
\* destroyed, and destroys it; a chunk whose flag is clear is not written.
C23_WrittenAfterUnlinkedBeforeDestroyed ==
    [][/\ pc = "deactivate" => disk' = disk
       /\ pc = "deactivateChunk" =>
             /\ heap[ChunkToDeactivate].live
             /\ heap[ChunkToDeactivate].coords \notin DOMAIN m_activeChunks
             /\ IsUnlinked(ChunkToDeactivate)
             /\ IF heap[ChunkToDeactivate].needsSave
                THEN disk' = MapPut(disk, heap[ChunkToDeactivate].coords,
                                    FileOfChunk(ChunkToDeactivate))
                ELSE disk' = disk
             /\ ~heap'[ChunkToDeactivate].live]_vars

\* C23 witness: a chunk that was edited has been deactivated and destroyed,
\* and its file is on disk
C23_Witness ==
    /\ pc = "light"
    /\ last.op = "deactivate"
    /\ ~heap[last.chunk].live
    /\ last.coords # <<0, 0>>
    /\ last.coords \in DOMAIN disk


-----------------------------------------------------------------------------
(* Edits *)

\* the blocks of live chunks whose type a step changes
BlocksChanged ==
    {loc \in ActiveBlockLocators :
        /\ heap'[loc.chunk].live
        /\ heap'[loc.chunk].blocks[loc.index].type # heap[loc.chunk].blocks[loc.index].type}

\* C24: when ProcessInput digs or places a block, the block whose type
\* changed is in the dirty lighting queue when ProcessInput returns, so that
\* the UpdateLighting of the tick relaxes it.
C24_EditedBlockIsQueued ==
    [][(pc = "input" /\ pc' = "activate" /\ m_activeChunks' = m_activeChunks) =>
           \A loc \in BlocksChanged :
               \E j \in 1 .. Len(m_dirtyLightingBlocks') : m_dirtyLightingBlocks'[j] = loc]_vars


-----------------------------------------------------------------------------
(* The lamp scenario *)

Abs(n) == IF n < 0 THEN -n ELSE n

\* the grid distance between two blocks of one chunk
GridDistance(i, j) ==
    Abs(XBits(i) - XBits(j)) + Abs(YBits(i) - YBits(j)) + Abs(ZBits(i) - ZBits(j))

\* the lamp chunk is the only active chunk, as it was loaded, and
\* UpdateLighting has returned
LampChunkAloneAndLit ==
    /\ pc = "input"
    /\ DOMAIN m_activeChunks = {<<0, 0>>}
    /\ TypesOf(heap[m_activeChunks[<<0, 0>>]].blocks) = LampTypes

LampBlocks == heap[m_activeChunks[<<0, 0>>]].blocks

-----------------------------------------------------------------------------
(* Meshes *)

\* the active coordinates whose chunk has a dirty mesh and all four
\* neighbours in the active set
MeshCandidates ==
    {k \in DOMAIN m_activeChunks :
        /\ heap[m_activeChunks[k]].meshDirty
        /\ {EastCoords(k), WestCoords(k), NorthCoords(k), SouthCoords(k)}
               \subseteq DOMAIN m_activeChunks}

\* the chunks whose dirty-mesh flag a step clears
MeshesBuiltByStep ==
    {a \in Addrs : /\ heap[a].live /\ heap'[a].live
                   /\ heap[a].coords = heap'[a].coords
                   /\ heap[a].meshDirty /\ ~heap'[a].meshDirty}

EndsTheTick == pc = "light" /\ pc' = "input"

\* C26: a tick builds at most one mesh, and only where the update ends; the
\* chunk built had its dirty-mesh flag set and all four neighbours active and
\* no such chunk was closer to the camera; BuildMesh leaves the flag clear.
C26_OneClosestDirtyMeshPerTick ==
    [][/\ Cardinality(MeshesBuiltByStep) <= 1
       /\ MeshesBuiltByStep # {} => EndsTheTick
       /\ \A a \in MeshesBuiltByStep : last'.chunk = a
       /\ (EndsTheTick /\ last'.chunk # NULL) =>
              /\ last'.coords \in MeshCandidates
              /\ m_activeChunks[last'.coords] = last'.chunk
              /\ \A k \in MeshCandidates :
                    DistanceSquared(last'.coords, camera) <= DistanceSquared(k, camera)
              /\ ~heap'[last'.chunk].meshDirty
              /\ \A k \in DOMAIN m_activeChunks \ {last'.coords} :
                    heap'[m_activeChunks[k]].meshDirty = heap[m_activeChunks[k]].meshDirty]_vars

\* a tick has just built the closer of two chunks that both had a dirty mesh
\* and four neighbours: the other is still waiting
C26_Witness ==
    /\ pc = "input"
    /\ last.op = "endOfUpdate"
    /\ last.chunk # NULL
    /\ ~heap[last.chunk].meshDirty
    /\ \E k \in MeshCandidates :
          /\ k # last.coords
          /\ DistanceSquared(k, camera) > DistanceSquared(last.coords, camera)


-----------------------------------------------------------------------------
(* The assertions of the active list *)

\* the heap once operator new has made a chunk for chunkCoords at a free address
HeapWithNewChunk(chunk, chunkCoords) == [heap EXCEPT ![chunk] = NewChunk(chunkCoords)]

\* the live chunks the map does not hold
UnlistedChunks ==
    {a \in Addrs : heap[a].live /\ \A k \in DOMAIN m_activeChunks : m_activeChunks[k] # a}

\* C27: AddChunkToActiveList on a chunk whose coordinate the map holds
\* already, and RemoveChunkFromActiveList on a chunk whose coordinate the map
\* does not hold, abort with the map and every link as they were; and no
\* sequence of ticks runs into either assertion.
C27_ListAssertions ==
    /\ ~(pc = "crashed" /\ last.op \in {"assertAdd", "assertRemove"})
    /\ \A k \in DOMAIN m_activeChunks, chunk \in FreeAddrs(heap) :
          LET h == HeapWithNewChunk(chunk, k)
              r == AddChunkToActiveListOrDie(h, m_activeChunks, chunk)
          IN r.died /\ r.heap = h /\ r.active = m_activeChunks
    /\ \A chunk \in UnlistedChunks :
          heap[chunk].coords \notin DOMAIN m_activeChunks =>
              LET r == RemoveChunkFromActiveListOrDie(heap, m_activeChunks, chunk)
              IN r.died /\ r.heap = heap /\ r.active = m_activeChunks

\* a chunk has just been taken off the map and is still alive, another chunk
\* is in the map and there is room for a new one: both assertions have a case
C27_Witness ==
    /\ pc = "deactivateChunk"
    /\ \E chunk \in UnlistedChunks :
          /\ heap[chunk].coords \notin DOMAIN m_activeChunks
          /\ RemoveChunkFromActiveListOrDie(heap, m_activeChunks, chunk).died
    /\ \E k \in DOMAIN m_activeChunks, chunk \in FreeAddrs(heap) :
          AddChunkToActiveListOrDie(HeapWithNewChunk(chunk, k), m_activeChunks, chunk).died


-----------------------------------------------------------------------------
(* The seeding of a new chunk's lighting *)

\* CheckToActivateChunks has just returned with a new chunk
JustActivated == pc = "deactivate" /\ last.op = "activate"

NewChunkBlocks == heap[last.chunk].blocks

\* the layer of the topmost fully opaque block of a column, or -1
TopmostOpaque(blocks, xIndex, yIndex) ==
    LET opaque == {z \in 0 .. (CHUNK_DIMENSIONS_Z - 1) :
                      IsFullyOpaque(blocks[GetBlockIndexFromBlockCoords(xIndex, yIndex, z)])}
    IN IF opaque = {} THEN -1 ELSE CHOOSE z \in opaque : \A other \in opaque : other <= z

\* C28: after the sky pass on a new chunk, in every column the blocks above
\* the topmost fully opaque block are sky with outdoor light 15; that block
\* and the blocks below it are not sky and their outdoor light is still the
\* 0 they were made with.
C28_SkyPass ==
    JustActivated =>
        \A i \in BlockIndices :
            IF ZBits(i) > TopmostOpaque(NewChunkBlocks, XBits(i), YBits(i))
            THEN NewChunkBlocks[i].sky /\ NewChunkBlocks[i].outdoor = BLOCK_MAX_LIGHTING
            ELSE ~NewChunkBlocks[i].sky /\ NewChunkBlocks[i].outdoor = NewBlock.outdoor

\* a new chunk with a column of sky over ground and a column where air lies
\* under the topmost opaque block
C28_Witness ==
    /\ JustActivated
    /\ \E i \in BlockIndices :
          /\ NewChunkBlocks[i].sky
          /\ TopmostOpaque(NewChunkBlocks, XBits(i), YBits(i)) >= 0
    /\ \E i \in BlockIndices :
          /\ ~IsFullyOpaque(NewChunkBlocks[i])
          /\ ZBits(i) < TopmostOpaque(NewChunkBlocks, XBits(i), YBits(i))


\* the blocks of a neighbour's face that touches the new chunk: the east
\* neighbour's x = 0, the west neighbour's x = max, the north neighbour's
\* y = 0, the south neighbour's y = max
TouchingFace(side) ==
    {i \in BlockIndices :
        CASE side = "east" -> XBits(i) = 0
          [] side = "west" -> XBits(i) = CHUNK_DIMENSIONS_X - 1
          [] side = "north" -> YBits(i) = 0
          [] side = "south" -> YBits(i) = CHUNK_DIMENSIONS_Y - 1}

NeighborOfNewChunk(side) == heap[last.chunk][side]

\* C29: when a chunk has been activated, for each neighbour it has, every
\* block of the neighbour's face touching the new chunk that is not fully
\* opaque is in the dirty lighting queue.
C29_NeighborFacesQueued ==
    JustActivated =>
        \A side \in {"east", "west", "north", "south"} :
            NeighborOfNewChunk(side) # NULL =>
                \A i \in TouchingFace(side) :
                    ~IsFullyOpaque(heap[NeighborOfNewChunk(side)].blocks[i]) =>
                        IsInDirtyLightingList(BlockLocator(NeighborOfNewChunk(side), i))

\* the same for the east, west and north neighbours only
C29_OtherFacesQueued ==
    JustActivated =>
        \A side \in {"east", "west", "north"} :
            NeighborOfNewChunk(side) # NULL =>
                \A i \in TouchingFace(side) :
                    ~IsFullyOpaque(heap[NeighborOfNewChunk(side)].blocks[i]) =>
                        IsInDirtyLightingList(BlockLocator(NeighborOfNewChunk(side), i))


\* the step in which CheckToActivateChunks activates a chunk
ActivatesChunk == pc = "activate" /\ pc' = "deactivate" /\ last'.op = "activate"

\* the locator is in the queue after the step
QueuedAfterStep(loc) ==
    \E j \in 1 .. Len(m_dirtyLightingBlocks') : m_dirtyLightingBlocks'[j] = loc

\* the valid locators east, west, north and south of loc after the step
HorizontalNeighborsAfterStep(loc) ==
    {n \in {ToEast(heap', loc), ToWest(heap', loc), ToNorth(heap', loc), ToSouth(heap', loc)} :
        IsValid(n)}

\* C30: the activation of a chunk queues every block of the chunk that is not
\* fully opaque and whose type emits light, and every block that is neither
\* fully opaque nor sky and lies east, west, north or south of a sky block of
\* the chunk; the only light values it writes are the outdoor light of the
\* chunk's sky blocks.
C30_SeedsQueuedAndNoOtherLightWritten ==
    [][ActivatesChunk =>
          LET chunk == last'.chunk
              blocks == heap'[chunk].blocks
          IN /\ \A i \in BlockIndices :
                   (~IsFullyOpaque(blocks[i]) /\ TypeInternalLightLevel(blocks[i].type) > 0)
                       => QueuedAfterStep(BlockLocator(chunk, i))
             /\ \A i \in BlockIndices :
                   blocks[i].sky =>
                       \A n \in HorizontalNeighborsAfterStep(BlockLocator(chunk, i)) :
                           LET block == heap'[n.chunk].blocks[n.index] IN
                           (~IsFullyOpaque(block) /\ ~block.sky) => QueuedAfterStep(n)
             /\ \A i \in BlockIndices :
                   /\ blocks[i].indoor = NewBlock.indoor
                   /\ ~blocks[i].sky => blocks[i].outdoor = NewBlock.outdoor
             /\ \A a \in Addrs \ {chunk} :
                   heap[a].live =>
                       \A i \in BlockIndices :
                           /\ heap'[a].blocks[i].indoor = heap[a].blocks[i].indoor
                           /\ heap'[a].blocks[i].outdoor = heap[a].blocks[i].outdoor
             /\ MISSING_BLOCK'.indoor = MISSING_BLOCK.indoor
             /\ MISSING_BLOCK'.outdoor = MISSING_BLOCK.outdoor]_vars

\* a chunk has just been activated that holds a block emitting light, now
\* queued, and a sky block whose horizontal neighbour, neither opaque nor sky,
\* is queued as well
C30_Witness ==
    /\ JustActivated
    /\ \E i \in BlockIndices :
          /\ ~IsFullyOpaque(NewChunkBlocks[i])
          /\ TypeInternalLightLevel(NewChunkBlocks[i].type) > 0
          /\ IsInDirtyLightingList(BlockLocator(last.chunk, i))
    /\ \E i \in BlockIndices :
          /\ NewChunkBlocks[i].sky
          /\ \E n \in {ToEast(heap, BlockLocator(last.chunk, i)),
                       ToWest(heap, BlockLocator(last.chunk, i)),
                       ToNorth(heap, BlockLocator(last.chunk, i)),
                       ToSouth(heap, BlockLocator(last.chunk, i))} :
                /\ IsValid(n)
                /\ ~IsFullyOpaque(heap[n.chunk].blocks[n.index])
                /\ ~heap[n.chunk].blocks[n.index].sky
                /\ IsInDirtyLightingList(n)


-----------------------------------------------------------------------------
(* Opaque blocks *)

\* C31: when UpdateLighting has drained the queue, no fully opaque block of
\* an active chunk has indoor light above the emission of its type or
\* outdoor light above 0.
C31_OpaqueBlocksStayDark ==
    LightingDrained =>
        \A loc \in ActiveBlockLocators :
            LET block == heap[loc.chunk].blocks[loc.index] IN
            IsFullyOpaque(block) =>
                /\ block.indoor <= TypeInternalLightLevel(block.type)
                /\ block.outdoor = 0

\* the same as long as no block has been dug or placed
C31_OpaqueBlocksStayDarkWithoutEdits ==
    (LightingDrained /\ edits = 0) =>
        \A loc \in ActiveBlockLocators :
            LET block == heap[loc.chunk].blocks[loc.index] IN
            IsFullyOpaque(block) =>
                /\ block.indoor <= TypeInternalLightLevel(block.type)
                /\ block.outdoor = 0


-----------------------------------------------------------------------------
(* Raycast: a sub-step that changes more than one coordinate *)

\* the axes on which the ray's floored position changes at a step
AxesChangedAt(stepIndex) ==
    {axis \in 1 .. 3 : SampleBlock(stepIndex)[axis] # SampleBlock(stepIndex - 1)[axis]}

\* the block reached at a step once the steps along the axes up to one axis
\* are taken: X alone, then X and Y, then X, Y and Z
BlockAfterAxis(stepIndex, axis) ==
    [a \in 1 .. 3 |-> IF a <= axis THEN SampleBlock(stepIndex)[a]
                      ELSE SampleBlock(stepIndex - 1)[a]]

\* the first changed axis, in the order X, Y, Z, whose step comes into a
\* solid block
FirstSolidAxisAt(stepIndex) ==
    CHOOSE axis \in AxesChangedAt(stepIndex) :
        /\ SolidAt(BlockAfterAxis(stepIndex, axis))
        /\ \A before \in AxesChangedAt(stepIndex) :
               before < axis => ~SolidAt(BlockAfterAxis(stepIndex, before))

\* C32: when the ray's floored position changes in more than one coordinate
\* within one sub-step, the changed axes are stepped and tested one at a time
\* in the order X, Y, Z, and the first solid block of these is the one
\* returned, with the normal of its axis and the distance of that sub-step; a
\* ray that comes past a solid block on such a sub-step reports a hit.
C32_AxesTestedInOrder ==
    RayWasCast =>
        /\ \A k \in 1 .. (RayTotalSteps - 1) :
              (Cardinality(AxesChangedAt(k)) > 1
                   /\ \E axis \in AxesChangedAt(k) : SolidAt(BlockAfterAxis(k, axis)))
                  => /\ DidImpact(last.result)
                     /\ last.result.m_impactDistance
                            <= k * (FLOAT_ONE \div RAYCAST_STEPS_PER_BLOCK)
        /\ (SolidSteps # {} /\ Cardinality(AxesChangedAt(FirstSolidStep)) > 1) =>
              LET axis == FirstSolidAxisAt(FirstSolidStep)
                  hit == BlockAfterAxis(FirstSolidStep, axis)
              IN /\ last.result.m_impactBlock = LocatorOf(hit)
                 /\ last.result.m_impactNormal =
                        [a \in 1 .. 3 |->
                            IF a = axis
                            THEN SampleBlock(FirstSolidStep - 1)[a] - SampleBlock(FirstSolidStep)[a]
                            ELSE 0]
                 /\ last.result.m_impactDistance =
                        FirstSolidStep * (FLOAT_ONE \div RAYCAST_STEPS_PER_BLOCK)

\* a ray whose sub-step changed X and Y at once and that was stopped by the
\* block of the X step alone, beside the block its sample lies in
C32_Witness ==
    /\ RayWasCast
    /\ SolidSteps # {}
    /\ AxesChangedAt(FirstSolidStep) = {1, 2}
    /\ FirstSolidAxisAt(FirstSolidStep) = 1
    /\ last.result.m_impactBlock = LocatorOf(BlockAfterAxis(FirstSolidStep, 1))
    /\ BlockAfterAxis(FirstSolidStep, 1) # SampleBlock(FirstSolidStep)


-----------------------------------------------------------------------------
(* Raycast: a ray that starts inside a solid block *)

\* the ray cast last started inside a solid block of an active chunk
StartsInsideSolid == RayWasCast /\ SolidAt(SampleBlock(0))

\* C36: a raycast whose start position is inside a solid block returns at
\* once with an impact on that block, at impact distance 0.
C36_StartInsideSolidHitsAtOnce ==
    StartsInsideSolid =>
        /\ DidImpact(last.result)
        /\ last.result.m_impactDistance = 0
        /\ last.result.m_impactBlock = LocatorOf(SampleBlock(0))


-----------------------------------------------------------------------------
(* The order inside an activation and inside a tick *)

OppositeSide(side) ==
    CASE side = "east" -> "west" [] side = "west" -> "east"
      [] side = "north" -> "south" [] side = "south" -> "north"

CoordsOnSide(c, side) ==
    CASE side = "east" -> EastCoords(c) [] side = "west" -> WestCoords(c)
      [] side = "north" -> NorthCoords(c) [] side = "south" -> SouthCoords(c)

\* the step goes from one call of World::Update to the next, or out of the run
FollowsUpdateOrder ==
    CASE pc = "input" -> pc' \in {"activate", "crashed"}
      [] pc = "activate" -> pc' \in {"deactivate", "crashed"}
      [] pc = "deactivate" -> pc' \in {"deactivateChunk", "light", "crashed"}
      [] pc = "deactivateChunk" -> pc' = "light"
      [] pc = "light" -> pc' \in {"light", "input", "crashed"}
      [] OTHER -> FALSE

\* C33: an activation populates the blocks, links the chunk into the active
\* set and to its active neighbours, and then initializes the lighting, which
\* sees the links: the neighbours' touching faces are queued.  In a tick the
\* activation and the deactivation come before UpdateLighting and the mesh
\* build comes after it: a mesh is built only with the queue drained.
C33_ActivationOrderAndTickOrder ==
    [][/\ FollowsUpdateOrder
       /\ ActivatesChunk =>
             LET chunk == last'.chunk
                 coords == last'.coords
             IN /\ \E beyond \in BeyondBytes :
                      TypesOf(heap'[chunk].blocks) =
                          TypesOf(PopulateBlocksOnChunk(NewChunk(coords).blocks, coords,
                                                        disk, beyond))
                /\ coords \in DOMAIN m_activeChunks'
                /\ m_activeChunks'[coords] = chunk
                /\ \A side \in {"east", "west", "north", "south"} :
                      IF CoordsOnSide(coords, side) \in DOMAIN m_activeChunks
                      THEN LET neighbor == m_activeChunks[CoordsOnSide(coords, side)]
                           IN /\ heap'[chunk][side] = neighbor
                              /\ heap'[neighbor][OppositeSide(side)] = chunk
                      ELSE heap'[chunk][side] = NULL
                /\ \A side \in {"east", "west", "north"} :
                      heap'[chunk][side] # NULL =>
                          \A i \in TouchingFace(side) :
                              ~IsFullyOpaque(heap'[heap'[chunk][side]].blocks[i]) =>
                                  QueuedAfterStep(BlockLocator(heap'[chunk][side], i))
       /\ m_activeChunks' # m_activeChunks =>
             /\ pc \in {"input", "activate", "deactivate"}
             /\ MeshesBuiltByStep = {}
       /\ MeshesBuiltByStep # {} =>
             /\ EndsTheTick
             /\ m_dirtyLightingBlocks = <<>>
             /\ m_dirtyLightingBlocks' = <<>>]_vars

\* a chunk has just been activated beside an active neighbour: its blocks
\* wait in the queue, and a chunk with four neighbours waits for its mesh
C33_Witness ==
    /\ JustActivated
    /\ m_dirtyLightingBlocks # <<>>
    /\ MeshCandidates # {}
    /\ \E side \in {"east", "west", "north"} :
          /\ NeighborOfNewChunk(side) # NULL
          /\ \E i \in TouchingFace(side) :
                IsInDirtyLightingList(BlockLocator(NeighborOfNewChunk(side), i))


-----------------------------------------------------------------------------
(* Horizontal steps of a block locator *)

\* the block coordinates of a locator's index
LocatorX(loc) == XBits(loc.index)
LocatorY(loc) == YBits(loc.index)
LocatorZ(loc) == ZBits(loc.index)

\* the active chunk beside a locator's chunk
ChunkOnSide(loc, side) == m_activeChunks[CoordsOnSide(heap[loc.chunk].coords, side)]

HasChunkOnSide(loc, side) ==
    CoordsOnSide(heap[loc.chunk].coords, side) \in DOMAIN m_activeChunks

\* the locators of the blocks of active chunks, the chunks alive
LiveActiveBlockLocators == {loc \in ActiveBlockLocators : heap[loc.chunk].live}

\* C34: a horizontal step from a block on a chunk face lands in the adjacent
\* chunk at the opposite face with the other two coordinates unchanged; a
\* step from a block not on that face stays in the chunk and changes one
\* coordinate by one.
C34_HorizontalSteps ==
    \A loc \in LiveActiveBlockLocators :
        LET x == LocatorX(loc)
            y == LocatorY(loc)
            z == LocatorZ(loc)
        IN /\ IF x = CHUNK_DIMENSIONS_X - 1
              THEN HasChunkOnSide(loc, "east") =>
                       ToEast(heap, loc) = BlockLocatorAt(ChunkOnSide(loc, "east"), 0, y, z)
              ELSE ToEast(heap, loc) = BlockLocatorAt(loc.chunk, x + 1, y, z)
           /\ IF x = 0
              THEN HasChunkOnSide(loc, "west") =>
                       ToWest(heap, loc) = BlockLocatorAt(ChunkOnSide(loc, "west"),
                                                          CHUNK_DIMENSIONS_X - 1, y, z)
              ELSE ToWest(heap, loc) = BlockLocatorAt(loc.chunk, x - 1, y, z)
           /\ IF y = CHUNK_DIMENSIONS_Y - 1
              THEN HasChunkOnSide(loc, "north") =>
                       ToNorth(heap, loc) = BlockLocatorAt(ChunkOnSide(loc, "north"), x, 0, z)
              ELSE ToNorth(heap, loc) = BlockLocatorAt(loc.chunk, x, y + 1, z)
           /\ IF y = 0
              THEN HasChunkOnSide(loc, "south") =>
                       ToSouth(heap, loc) = BlockLocatorAt(ChunkOnSide(loc, "south"), x,
                                                           CHUNK_DIMENSIONS_Y - 1, z)
              ELSE ToSouth(heap, loc) = BlockLocatorAt(loc.chunk, x, y - 1, z)

\* a block on the south face of a chunk with an active chunk south of it: the
\* step south lands on that chunk's north face, the step north stays
C34_Witness ==
    \E loc \in LiveActiveBlockLocators :
        /\ HasChunkOnSide(loc, "south")
        /\ LocatorY(loc) = 0
        /\ LocatorZ(loc) > 0
        /\ ToSouth(heap, loc).chunk = ChunkOnSide(loc, "south")
        /\ ToSouth(heap, loc).chunk # loc.chunk
        /\ LocatorY(ToSouth(heap, loc)) = CHUNK_DIMENSIONS_Y - 1
        /\ ToNorth(heap, loc).chunk = loc.chunk


-----------------------------------------------------------------------------
(* The sky flags of a column after the type of one of its blocks changed *)

\* UpdateSkyFlagsForBlock has run on the block that changed
SkyFlagsUpdated == pc = "skyDone" /\ last.op = "updateSky"

\* the blocks of the column of the block that changed
ChangedColumn ==
    {i \in BlockIndices : i % BLOCKS_PER_Z_LAYER = last.d2 % BLOCKS_PER_Z_LAYER}

\* C35: after UpdateSkyFlagsForBlock on a block whose type was just changed,
\* in a column whose sky flags were correct before, every block of the column
\* is flagged sky exactly when it is not fully opaque and has no fully opaque
\* block above it, also when the changed block is in the top Z layer.
C35_SkyFlagsOfColumn ==
    SkyFlagsUpdated =>
        \A i \in ChangedColumn :
            heap[last.chunk].blocks[i].sky = IsSkyByColumn(heap[last.chunk].blocks, i)

\* the same when the changed block is below the top Z layer, or is fully
\* opaque after the change
C35_SkyFlagsOfColumnBelowTop ==
    (/\ SkyFlagsUpdated
     /\ \/ ZBits(last.d2) < CHUNK_DIMENSIONS_Z - 1
        \/ IsFullyOpaque(heap[last.chunk].blocks[last.d2])) =>
        \A i \in BlockIndices :
            heap[last.chunk].blocks[i].sky = IsSkyByColumn(heap[last.chunk].blocks, i)


-----------------------------------------------------------------------------
(* The chunks the queued locators point at *)

\* CheckToDeactivateChunks is between RemoveChunkFromActiveList and the
\* delete of DeactivateChunk
InsideDeactivation == pc = "deactivateChunk"

\* the chunk of a locator is alive and in the active map
PointsAtActiveChunk(loc) ==
    /\ loc.chunk \in Addrs
    /\ heap[loc.chunk].live
    /\ \E k \in DOMAIN m_activeChunks : m_activeChunks[k] = loc.chunk

\* C37: every locator in the dirty lighting queue is the missing locator or
\* points at a chunk of the active set: no deactivation and no mass
\* deactivation leaves a queued locator of a deleted chunk.
C37_QueuedLocatorsPointAtActiveChunks ==
    ~InsideDeactivation =>
        \A j \in 1 .. Len(m_dirtyLightingBlocks) :
            \/ m_dirtyLightingBlocks[j].chunk = NULL
            \/ PointsAtActiveChunk(m_dirtyLightingBlocks[j])


-----------------------------------------------------------------------------
(* Placing a block where the hit face looks out of the active chunks *)

\* the step is a right click of ProcessInput, alone, without the key of the
\* mass deactivation
PlacesOnly == pc = "input" /\ last'.op \in {"place", "faultPlace"}

\* C38: placing a block never writes through a null chunk: when the locator
\* stepped to from the hit block along the impact normal is missing, no block
\* is written and the world is as before.
C38_PlaceOnMissingLocatorDoesNothing ==
    [][PlacesOnly =>
          /\ last'.op # "faultPlace"
          /\ last'.chunk = NULL =>
                /\ heap' = heap
                /\ m_dirtyLightingBlocks' = m_dirtyLightingBlocks
                /\ MISSING_BLOCK' = MISSING_BLOCK
                /\ m_activeChunks' = m_activeChunks
                /\ disk' = disk]_vars


-----------------------------------------------------------------------------
(* Streaming around a camera that stands still *)

\* the step leaves the camera where it is and is not a mass deactivation
PlayerStays ==
    /\ camera' = camera
    /\ pc = "input" => last'.op # "massDeactivate"

\* every coordinate closer to the camera than activation_range is active and
\* no active coordinate is farther than activation_range + deactivation_offset
StreamingSettled ==
    /\ \A k \in CoordsAround :
          DistanceSquared(k, camera) < ActivationRangeSquared => k \in ActiveCoords
    /\ \A k \in ActiveCoords : DistanceSquared(k, camera) <= DeactivationRangeSquared

\* C39: once the camera stands still, after finitely many ticks the active set
\* holds every coordinate within activation_range and none beyond
\* activation_range + deactivation_offset, and from then on no chunk is
\* activated or deactivated.
C39_StreamingStabilizes ==
    <>[][PlayerStays]_vars =>
        /\ <>[]StreamingSettled
        /\ <>[][m_activeChunks' = m_activeChunks]_vars

\* the same for the runs in which the program stays alive
C39_StreamingStabilizesWhileAlive ==
    <>[][PlayerStays]_vars =>
        \/ <>[](pc = "crashed")
        \/ /\ <>[]StreamingSettled
           /\ <>[][m_activeChunks' = m_activeChunks]_vars

=============================================================================
